---- MODULE Spec2Model ----
(***************************************************************************)
(* Verification model of the RFC-2544 execution core:                      *)
(*   - ResourceManager            (plugin2544/plugin/test_resource.py)     *)
(*   - BackToBackBoutEntry        (pluginlib/.../plugin/tc_back_to_back.py)*)
(*   - AddressRefreshHandler      (pluginlib/.../plugin/learning.py)       *)
(*   - StreamStruct               (pluginlib/.../plugin/stream_struct.py)  *)
(*   - ProtocolSegmentProfileConfig (pluginlib/.../model/                  *)
(*                                   m_protocol_segment.py)                *)
(* The specifications share the variables below:                           *)
(*   Spec          init_resource / start_traffic / stop_traffic            *)
(*   SpecQuit      should_quit under changing port status and wall clock   *)
(*   SpecB2B       the back-to-back binary search                          *)
(*   SpecRefresh   the address-refresh tokens, interval and batches        *)
(*   SpecLearning  the L3 learning preamble and the refresh schedule       *)
(*   SpecMac       MAC learning                                            *)
(*   SpecSync      the port sync toggle and the wait for sync              *)
(*   SpecRelations resolve_port_relations under every topology             *)
(*   SpecReinit    init_resource called again on a ready manager           *)
(*   SpecBoot      init_resource on test beds the configuration checks     *)
(*                 reject, followed by the first steps of the test         *)
(*   SpecCancel    the L3 learning preamble cancelled at a suspension      *)
(*   SpecCollect   the polling tasks of collect()                          *)
(*   SpecStreams   StreamStruct.init_rx_tables                             *)
(*   SpecValues    FieldValueRange.get_current_value and reset             *)
(*   SpecProfile   the validators that build a protocol segment profile    *)
(*   SpecConfigure the segment types and header StreamStruct.configure     *)
(*                 sends                                                   *)
(***************************************************************************)
EXTENDS Integers, Sequences, FiniteSets, TLC

(***************************************************************************)
(* Bounds of the model.                                                    *)
(***************************************************************************)
\* longest list of configured ports
MaxPorts == 3
\* last reading a chassis clock reaches
MaxTime == 2
\* longest list of configured ports while should_quit is polled
MaxQuitPorts == 2
\* last reading of time.time()
MaxNow == 5
\* loss-of-signal warnings of one run
MaxWarnings == 2
\* tx ports handed to the back-to-back test
MaxB2BPorts == 3
\* update_boundaries calls on one controller that are fed a final statistic
MaxUpdates == 9
\* longest list of address refresh tokens
MaxTokens == 5
\* batches one refresh schedule sends, and status polls of one wait
MaxBatches == 3
\* largest mac_learning_frame_count
MaxFrameCount == 2
\* seconds by which an asyncio.sleep can return late
MaxJitter == 1
\* init_resource calls on one ResourceManager
MaxInitCalls == 2
\* longest list of ports collect() polls
MaxPollPorts == 3
\* rx peers of the tx port whose streams are configured
MaxRxPeers == 2
\* StreamStructs configured on the tx port
MaxStreams == 2
\* largest start_value and stop_value of a FieldValueRange
MaxFieldValue == 3
\* largest step_value of a FieldValueRange
MaxStep == 2
\* get_current_value calls on one FieldValueRange
MaxValueCalls == 6
\* header segments of a profile
MaxSegments == 2
\* header segments of the profile of a stream's tx port
MaxHeaderSegments == 3

(***************************************************************************)
(* Generic helpers.                                                        *)
(***************************************************************************)
Indexes(s, P(_)) == {i \in DOMAIN s : P(s[i])}

RECURSIVE SelectIdx(_, _, _)
\* the indexes in 1..n that belong to S, in ascending order, as a sequence
SelectIdx(S, i, n) ==
    IF i > n THEN <<>>
    ELSE IF i \in S THEN <<i>> \o SelectIdx(S, i + 1, n)
    ELSE SelectIdx(S, i + 1, n)

Range(s) == {s[i] : i \in DOMAIN s}

CountCmd(log, c) == Cardinality({i \in DOMAIN log : log[i].cmd = c})

(***************************************************************************)
(* Configuration: chassis, port identities and port roles.                 *)
(***************************************************************************)
Testers == {"A", "B"}

\* PortIdentity: (tester_id, module_index, port_index)
PortIdentities ==
    { [tester_id |-> "A", module_index |-> 0, port_index |-> 0],
      [tester_id |-> "A", module_index |-> 0, port_index |-> 1],
      [tester_id |-> "B", module_index |-> 1, port_index |-> 2],
      [tester_id |-> "B", module_index |-> 0, port_index |-> 0] }

\* PortConfiguration: the identity of its slot and the role flags
PortConfs ==
    { c \in [port_identity : PortIdentities,
             is_tx_port : BOOLEAN, is_rx_port : BOOLEAN] :
        c.is_tx_port \/ c.is_rx_port }

\* every list of at most MaxPorts configured ports on distinct slots
Layouts ==
    UNION { { s \in [1..n -> PortConfs] :
                \A i, j \in 1..n : i # j => s[i].port_identity # s[j].port_identity }
            : n \in 1..MaxPorts }

VARIABLES
    all_confs,      \* ResourceManager.all_confs: list of PortConfiguration
    stop_on_los,    \* test_conf.should_stop_on_los
    port_structs,   \* ResourceManager.port_structs: list of PortStruct
    mapping,        \* ResourceManager.mapping: tester_id -> [m, p, m, p, ...]
    pc,             \* position of the root task
    ret,            \* where stop_traffic returns to
    port_sync,      \* argument of the start_traffic call in progress
    pending,        \* command tokens handed to utils.apply and not yet sent
    task,           \* per chassis: the start_traffic_sync task
    local_time,     \* per chassis: its clock
    cmds,           \* per chassis: commands received since the operation began
    now,            \* time.time()
    quit_args,      \* arguments of the should_quit call just made
    quit_ret,       \* value the should_quit call just made returned
    quit_warned,    \* whether the should_quit call just made sent a warning
    fresh,          \* should_quit has returned and nothing has changed since
    xoa_out,        \* number of warnings sent to the outer pipe
    los_warned,     \* warnings sent since the last sync loss of a port
    b2b_conf,       \* BackToBackConfig, the tx ports and the device under test
    b2b,            \* the list of BackToBackBoutEntry
    b2b_hist,       \* per controller: what its update_boundaries calls were fed,
                    \* the statistic of the last call and the controller before it
    arh,            \* the AddressRefreshHandler
    ar_batch,       \* the list the last get_batch call returned
    ar_ports,       \* role flags of the ports setup_address_refresh walked
    ar_hist,        \* since the last set_current_state: whether get_batch
                    \* was called, the index its last call found, and the
                    \* calls and tokens returned until every active token
                    \* was returned once
    l3_conf,        \* the handler argument and the learning knobs of test_conf
    l3,             \* the learning operation in progress: its position, the
                    \* commands it has issued, and what its scheduler has done
    test_conf,      \* test_conf: topology, port groups (port_conf.port_group
                    \* of each configured port), toggle-sync and MAC-learning
                    \* settings
    max_xmit,       \* per port: capabilities.max_xmit_one_packet_length
    mac,            \* the add_mac_learning_steps call in progress or just over
    tsync,          \* the add_toggle_port_sync_state_steps call of init_resource
    testbed,        \* what init_resource finds: the configured ports that sit
                    \* on a Chimera module, and whether check_config accepts
    init_run,       \* the init_resource calls made, the exception the last
                    \* one raised, and the port structs whose prepare() ran
    rxt,            \* the rx tables: the test_conf flags and the protocol
                    \* version of the tx port, the StreamStructs configured on
                    \* it, and arp_trunks, ndp_trunks and
                    \* address_refresh_data_set of every port
    fvr,            \* a FieldValueRange and the values get_current_value has
                    \* returned since it was built or reset
    profile,        \* a ProtocolSegmentProfileConfig being built: its header
                    \* segments, how many of them are validated, and how the
                    \* build ended
    hdr,            \* StreamStruct.configure on one stream: the header segment
                    \* types of the tx port's profile, the port's TCP checksum
                    \* capability, and what has been sent to the stream
    poll            \* the collect() call: the ports and the rx ports of each
                    \* tx port's stream, the position of every polling task,
                    \* and who has written which port's statistic

rmVars == <<all_confs, stop_on_los, port_structs, mapping, pc, ret, port_sync,
            pending, task, local_time, cmds>>
quitVars == <<now, quit_args, quit_ret, quit_warned, fresh, xoa_out, los_warned>>
b2bVars == <<b2b_conf, b2b, b2b_hist>>
arVars == <<arh, ar_batch, ar_ports, ar_hist>>
l3Vars == <<l3_conf, l3>>
confVars == <<test_conf, max_xmit>>
initVars == <<testbed, init_run>>
segVars == <<fvr, profile, hdr>>
restVars == <<initVars, poll, rxt, segVars>>
stepVars == <<l3Vars, confVars, mac, tsync, restVars>>
vars == <<rmVars, quitVars, b2bVars, arVars, stepVars>>

\* no learning operation has been called
NoL3 ==
    [ pc |-> "idle", op |-> "none", log |-> <<>>, fires |-> 0, sleeps |-> 0,
      idle_fires |-> 0, last_running |-> FALSE, queries |-> 0,
      clear_running |-> FALSE ]

IdleL3 ==
    /\ l3_conf = [handler |-> FALSE, learning_rate_pct |-> 0,
                  learning_duration_second |-> 0]
    /\ l3 = NoL3

\* len(hex_data) // 2: dest_mac, own_mac (6 bytes, 12 hex digits), four_f and
\* the "00" * 118 paddings
learning_frame_length == (12 + 12 + 4 + 2 * 118) \div 2

\* a mesh test that asks for no port-sync toggling and no MAC learning, on
\* ports that can send the learning frame
IdleConf ==
    /\ test_conf = [is_mesh_topology |-> TRUE,
                    port_group |-> [i \in DOMAIN all_confs |-> "undefined"],
                    toggle_port_sync |-> FALSE,
                    sync_off_duration_second |-> 0,
                    delay_after_sync_on_second |-> 0,
                    mac_learning_mode |-> "never",
                    mac_learning_frame_count |-> 1]
    /\ max_xmit = [i \in DOMAIN all_confs |-> learning_frame_length]

\* add_mac_learning_steps has not been called
NoMac ==
    [ called |-> FALSE, require_mode |-> "none", k |-> 0, left |-> 0,
      sent |-> <<>>, visited |-> {}, error |-> "none" ]

IdleMac == mac = NoMac

\* add_toggle_port_sync_state_steps has not been called
NoSync ==
    [ called |-> FALSE, entered_at |-> -1, off_done_at |-> -1, on_at |-> -1,
      start_time |-> -1, k |-> 0, reached |-> <<>>, passed_synced |-> TRUE,
      wait_over_at |-> -1, returned_at |-> -1, all_synced_at_return |-> FALSE,
      error |-> "none", timeout_port |-> 0 ]

IdleSync == tsync = NoSync

\* init_resource has not been called; no port sits on a Chimera module and
\* check_config accepts the configuration
NoInitRun == [calls |-> 0, error |-> "none", prepared |-> {}]

IdleInit ==
    /\ testbed = [chimera |-> {}, config_valid |-> TRUE]
    /\ init_run = NoInitRun

\* collect() has not been called and there is nothing to poll
NoPoll == [ports |-> <<>>, rx_ports |-> <<>>, phase |-> "idle", pc |-> <<>>,
           writes |-> {}]

IdlePoll == poll = NoPoll

\* no stream has been configured
NoRxTables ==
    [ arp_refresh_enabled |-> FALSE, use_gateway_mac_as_dmac |-> FALSE,
      is_stream_based |-> TRUE, protocol_version |-> "ETHERNET",
      streams |-> <<>>, props |-> <<>> ]

IdleRxTables == rxt = NoRxTables

\* no FieldValueRange is in use
NoRange ==
    [ start_value |-> 0, stop_value |-> 0, step_value |-> 0, action |-> "INC",
      current_count |-> 0, returned |-> <<>>, calls |-> 0, resets |-> 0 ]

\* no profile is being built
NoProfile == [header_segments |-> <<>>, validated |-> 0, status |-> "none",
              error |-> "none"]

\* no stream header is being configured
NoHeader ==
    [ segment_types |-> <<>>, can_tcp_checksum |-> FALSE,
      has_segment_id_list |-> TRUE, pc |-> "none", error |-> "none",
      protocol |-> <<>>, programmed |-> <<>>, packet_header |-> <<>> ]

IdleHeader == hdr = NoHeader

IdleSegments ==
    /\ fvr = NoRange
    /\ profile = NoProfile
    /\ IdleHeader

IdleRest ==
    /\ IdleInit
    /\ IdlePoll
    /\ IdleRxTables
    /\ IdleSegments

IdleSteps ==
    /\ IdleL3
    /\ IdleConf
    /\ IdleMac
    /\ IdleSync
    /\ IdleRest

(***************************************************************************)
(* ResourceManager                                                         *)
(***************************************************************************)
\* delay_seconds in start_traffic_sync
delay_seconds == 2

\* PortStruct(tester, port, port_conf, port_identity, xoa_out)
PortStruct(conf) ==
    [ port_conf |-> conf,
      port_identity |-> conf.port_identity,
      test_port_index |-> -1,
      sync_status |-> TRUE,
      traffic_status |-> FALSE ]

\* indexes of the port structs that are tx ports, in list order
tx_ports == Indexes(port_structs, LAMBDA ps : ps.port_conf.is_tx_port)

\* indexes of the port structs that are rx ports
rx_ports == Indexes(port_structs, LAMBDA ps : ps.port_conf.is_rx_port)

NoTask == [pc |-> "none", local_time |-> 0, module_port_list |-> <<>>]

IdleTasks == [t \in Testers |-> NoTask]

EmptyLog == [t \in Testers |-> <<>>]

EmptyMap == [t \in {} |-> <<>>]

Cmd(c, onoff, when, ports, ps) ==
    [cmd |-> c, onoff |-> onoff, when |-> when, ports |-> ports, ps |-> ps]

\* port_struct.set_traffic(state): the per-port traffic command token
set_traffic(i, state) ==
    Cmd("P_TRAFFIC", state, -1,
        <<port_structs[i].port_identity.module_index,
          port_structs[i].port_identity.port_index>>, i)

Send(t, c) == cmds' = [cmds EXCEPT ![t] = Append(@, c)]

\* collect_control_ports: one PortStruct per configured port is appended
RECURSIVE collect(_, _)
collect(structs, confs) ==
    IF confs = <<>> THEN structs
    ELSE collect(Append(structs, PortStruct(Head(confs))), Tail(confs))

\* build_map: the loop over tx_ports, txs the tx port structs still to add
RECURSIVE build_map_loop(_, _)
build_map_loop(m, txs) ==
    IF txs = <<>> THEN m
    ELSE LET id == port_structs[Head(txs)].port_identity
             tid == id.tester_id
             m1 == IF tid \in DOMAIN m THEN m
                   ELSE [t \in DOMAIN m \cup {tid} |->
                            IF t \in DOMAIN m THEN m[t] ELSE <<>>]
             m2 == [m1 EXCEPT ![tid] = @ \o <<id.module_index, id.port_index>>]
         IN build_map_loop(m2, Tail(txs))

\* the port structs build_map enters into the mapping
build_map_ports_mut == DOMAIN port_structs
build_map_ports == tx_ports

\* the tx ports a traffic start addresses
start_ports_mut == DOMAIN port_structs
start_ports == tx_ports

\* the branch start_traffic takes
start_mode_mut(sync) ==
    IF ~sync THEN "per_port"
    ELSE IF Cardinality(DOMAIN mapping) <= 1 THEN "sync"
    ELSE "chassis"
start_mode(sync) ==
    IF ~sync THEN "per_port"
    ELSE IF Cardinality(DOMAIN mapping) = 1 THEN "chassis"
    ELSE "sync"

\* the start time start_traffic_sync asks for
sync_when_mut(t) == local_time[t] + delay_seconds
sync_when(t) == task[t].local_time + delay_seconds

InitRM(layouts, los_flags) ==
    /\ all_confs \in layouts
    /\ stop_on_los \in los_flags
    /\ port_structs = <<>>
    /\ mapping = EmptyMap
    /\ pc = "new"
    /\ ret = "none"
    /\ port_sync = FALSE
    /\ pending = {}
    /\ task = IdleTasks
    /\ local_time = [t \in Testers |-> 0]
    /\ cmds = EmptyLog

InitQuit ==
    /\ now = 0
    /\ quit_args = [start_time |-> 0, actual_duration |-> 0]
    /\ quit_ret = FALSE
    /\ quit_warned = FALSE
    /\ fresh = FALSE
    /\ xoa_out = 0
    /\ los_warned = 0

\* init_resource is called: the operation starts with collect_control_ports
init_resource ==
    /\ pc = "new"
    /\ pc' = "collect_control_ports"
    /\ cmds' = EmptyLog
    /\ init_run' = [init_run EXCEPT !.calls = @ + 1, !.error = "none"]
    /\ UNCHANGED <<all_confs, stop_on_los, port_structs, mapping, ret, port_sync,
                   pending, task, local_time>>
    /\ UNCHANGED <<quitVars, b2bVars, arVars, l3Vars, confVars, mac, tsync,
                   testbed, poll, rxt, segVars>>

\* init_resource is called on a ResourceManager that has run it before
init_resource_again ==
    /\ pc = "ready"
    /\ init_run.calls < MaxInitCalls
    /\ pc' = "collect_control_ports"
    /\ cmds' = EmptyLog
    /\ init_run' = [init_run EXCEPT !.calls = @ + 1, !.error = "none"]
    /\ UNCHANGED <<all_confs, stop_on_los, port_structs, mapping, ret, port_sync,
                   pending, task, local_time>>
    /\ UNCHANGED <<quitVars, b2bVars, arVars, l3Vars, confVars, mac, tsync,
                   testbed, poll, rxt, segVars>>

\* the first configured port whose module is a ModuleChimera, 0 if none is
first_chimera_mut == IF 1 \in testbed.chimera THEN 1 ELSE 0
first_chimera ==
    IF testbed.chimera = {} THEN 0
    ELSE CHOOSE k \in testbed.chimera : \A h \in testbed.chimera : k <= h

\* collect_control_ports: the loop appends a PortStruct for every configured
\* port until it meets a Chimera module and raises; when the loop is through,
\* prepare() of every port struct of the list is gathered
collect_control_ports ==
    /\ pc = "collect_control_ports"
    /\ IF first_chimera = 0
       THEN /\ port_structs' = collect(port_structs, all_confs)
            /\ init_run' = [init_run EXCEPT !.prepared = DOMAIN port_structs']
            /\ pc' = "resolve_port_relations"
       ELSE /\ port_structs' = collect(port_structs,
                                       SubSeq(all_confs, 1, first_chimera - 1))
            /\ init_run' = [init_run EXCEPT !.error = "WrongModuleTypeError"]
            /\ pc' = "raised"
    /\ UNCHANGED <<all_confs, stop_on_los, mapping, ret, port_sync, pending, task,
                   local_time, cmds>>
    /\ UNCHANGED <<quitVars, b2bVars, arVars, l3Vars, confVars, mac, tsync,
                   testbed, poll, rxt, segVars>>

\* PortGroup of a port configuration
PortGroups == {"east", "west", "undefined"}

\* indexes of the port structs whose port_conf.port_group is group, the
\* list comprehensions east_ports and west_ports
group_ports(group) ==
    {i \in DOMAIN port_structs :
        test_conf.port_group[((i - 1) % Len(all_confs)) + 1] = group}

\* how many ports of the list the loop over it has numbered before port i
numbered_before(ports, i) == Cardinality({j \in ports : j < i})

\* the test_port_index port i has after the first half of
\* resolve_port_relations: the counter starts at 0 and is incremented for
\* every port a loop passes; a port no loop passes keeps its value
resolved_index(i) ==
    IF test_conf.is_mesh_topology
    THEN i - 1
    ELSE IF i \in group_ports("east")
    THEN numbered_before(group_ports("east"), i)
    ELSE IF i \in group_ports("west")
    THEN Cardinality(group_ports("east"))
             + numbered_before(group_ports("west"), i)
    ELSE port_structs[i].test_port_index

\* check_config(testers, port_structs, test_conf) raises
check_config_rejects_mut == FALSE
check_config_rejects == ~testbed.config_valid

\* resolve_port_relations, then check_config; neither suspends
resolve_port_relations ==
    /\ pc = "resolve_port_relations"
    /\ port_structs' = [i \in DOMAIN port_structs |->
                           [port_structs[i] EXCEPT
                               !.test_port_index = resolved_index(i)]]
    /\ IF check_config_rejects
       THEN /\ init_run' = [init_run EXCEPT !.error = "ConfigurationError"]
            /\ pc' = "raised"
       ELSE /\ pc' = "build_map"
            /\ UNCHANGED init_run
    /\ UNCHANGED <<all_confs, stop_on_los, mapping, ret, port_sync, pending, task,
                   local_time, cmds>>
    /\ UNCHANGED <<quitVars, b2bVars, arVars, l3Vars, confVars, mac, tsync,
                   testbed, poll, rxt, segVars>>

build_map ==
    /\ pc = "build_map"
    /\ mapping' = build_map_loop(mapping,
                     SelectIdx(build_map_ports, 1, Len(port_structs)))
    /\ pc' = "stop_traffic"
    /\ ret' = "setup"
    /\ UNCHANGED <<all_confs, stop_on_los, port_structs, port_sync, pending, task,
                   local_time, cmds>>
    /\ UNCHANGED <<quitVars, b2bVars, arVars, stepVars>>

\* stop_traffic: a STOP token for every port struct is handed to utils.apply
stop_traffic ==
    /\ pc = "stop_traffic"
    /\ pending' = {set_traffic(i, "STOP") : i \in DOMAIN port_structs}
    /\ pc' = "apply"
    /\ UNCHANGED <<all_confs, stop_on_los, port_structs, mapping, ret, port_sync,
                   task, local_time, cmds>>
    /\ UNCHANGED <<quitVars, b2bVars, arVars, stepVars>>

\* utils.apply sends the tokens; no order among them is guaranteed
apply_send ==
    /\ pc = "apply"
    /\ \E c \in pending :
          /\ Send(port_structs[c.ps].port_identity.tester_id, c)
          /\ pending' = pending \ {c}
    /\ UNCHANGED <<all_confs, stop_on_los, port_structs, mapping, pc, ret,
                   port_sync, task, local_time>>
    /\ UNCHANGED <<quitVars, b2bVars, arVars, stepVars>>

\* utils.apply returns once every token is sent
apply_done ==
    /\ pc = "apply"
    /\ pending = {}
    /\ pc' = ret
    /\ ret' = "none"
    /\ UNCHANGED <<all_confs, stop_on_los, port_structs, mapping, port_sync,
                   pending, task, local_time, cmds>>
    /\ UNCHANGED <<quitVars, b2bVars, arVars, stepVars>>

\* init_resource: the delay after the port reset, setup_ports and
\* setup_sweep_reduction
init_resource_setup ==
    /\ pc = "setup"
    /\ pc' = "toggle_sync"
    /\ UNCHANGED <<all_confs, stop_on_los, port_structs, mapping, ret, port_sync,
                   pending, task, local_time, cmds>>
    /\ UNCHANGED <<quitVars, b2bVars, arVars, stepVars>>

\* start_traffic(port_sync = sync)
start_traffic(sync) ==
    /\ pc = "ready"
    /\ port_sync' = sync
    /\ LET mode == start_mode(sync)
       IN  \/ /\ mode = "per_port"
              /\ pending' = {set_traffic(i, "START") : i \in start_ports}
              /\ pc' = "apply"
              /\ ret' = "started"
              /\ cmds' = EmptyLog
              /\ UNCHANGED task
           \/ /\ mode = "chassis"
              /\ LET tester_id == CHOOSE t \in DOMAIN mapping : TRUE
                 IN  cmds' = [EmptyLog EXCEPT ![tester_id] =
                                <<Cmd("C_TRAFFIC", "ON", -1, mapping[tester_id], 0)>>]
              /\ pc' = "started"
              /\ UNCHANGED <<pending, ret, task>>
           \/ /\ mode = "sync"
              /\ task' = [t \in Testers |->
                            IF t \in DOMAIN mapping
                            THEN [pc |-> "time_get", local_time |-> 0,
                                  module_port_list |-> mapping[t]]
                            ELSE NoTask]
              /\ pc' = "gather"
              /\ cmds' = EmptyLog
              /\ UNCHANGED <<pending, ret>>
    /\ UNCHANGED <<all_confs, stop_on_los, port_structs, mapping, local_time>>
    /\ UNCHANGED <<quitVars, b2bVars, arVars, stepVars>>

\* start_traffic_sync: local_time = (await tester.time.get()).local_time
start_traffic_sync_time(t) ==
    /\ pc = "gather"
    /\ task[t].pc = "time_get"
    /\ task' = [task EXCEPT ![t].pc = "traffic_sync",
                            ![t].local_time = local_time[t]]
    /\ Send(t, Cmd("C_TIME", "-", local_time[t], <<>>, 0))
    /\ UNCHANGED <<all_confs, stop_on_los, port_structs, mapping, pc, ret,
                   port_sync, pending, local_time>>
    /\ UNCHANGED <<quitVars, b2bVars, arVars, stepVars>>

\* start_traffic_sync: await tester.traffic_sync.set(ON, local_time + 2, list)
start_traffic_sync_set(t) ==
    /\ pc = "gather"
    /\ task[t].pc = "traffic_sync"
    /\ task' = [task EXCEPT ![t].pc = "done"]
    /\ Send(t, Cmd("C_TRAFFICSYNC", "ON", sync_when(t), task[t].module_port_list, 0))
    /\ UNCHANGED <<all_confs, stop_on_los, port_structs, mapping, pc, ret,
                   port_sync, pending, local_time>>
    /\ UNCHANGED <<quitVars, b2bVars, arVars, stepVars>>

\* asyncio.gather returns when every start_traffic_sync task has returned
gather_done ==
    /\ pc = "gather"
    /\ \A t \in Testers : task[t].pc \in {"none", "done"}
    /\ pc' = "started"
    /\ task' = IdleTasks
    /\ UNCHANGED <<all_confs, stop_on_los, port_structs, mapping, ret, port_sync,
                   pending, local_time, cmds>>
    /\ UNCHANGED <<quitVars, b2bVars, arVars, stepVars>>

\* a chassis clock advances while the scheduled start is being set up
Tick(t) ==
    /\ pc = "gather"
    /\ local_time[t] < MaxTime
    /\ local_time' = [local_time EXCEPT ![t] = @ + 1]
    /\ UNCHANGED <<all_confs, stop_on_los, port_structs, mapping, pc, ret,
                   port_sync, pending, task, cmds>>
    /\ UNCHANGED <<quitVars, b2bVars, arVars, stepVars>>

(***************************************************************************)
(* add_toggle_port_sync_state_steps                                        *)
(***************************************************************************)
\* const.DELAY_CHECK_SYNC, in seconds
DELAY_CHECK_SYNC == 1

\* the bound of the wait: time.time() - start_time > 30
sync_timeout == 30

SyncOffDurations == {1, 2}

DelaysAfterSyncOn == {0, 1}

\* asyncio.sleep(d) returns d seconds later or up to MaxJitter seconds late
Jitters == 0..MaxJitter

\* port_struct.set_toggle_port_sync(on_off): the command token of port i
set_toggle_port_sync(i, on_off) ==
    Cmd("set_toggle_port_sync", on_off, -1,
        <<port_structs[i].port_identity.module_index,
          port_structs[i].port_identity.port_index>>, i)

\* the for/while loops of the wait, entered at port k: the first port from k
\* on whose sync_status is false, Len(port_structs) + 1 if there is none
next_unsynced_mut(k) == Len(port_structs) + 1
next_unsynced(k) ==
    LET waiting == {j \in k..Len(port_structs) : ~port_structs[j].sync_status}
    IN  IF waiting = {} THEN Len(port_structs) + 1
        ELSE CHOOSE j \in waiting : \A h \in waiting : j <= h

\* the wait loops run from port k until they have to sleep or are through
sync_poll(s, k, at) ==
    LET k2 == next_unsynced(k)
        s2 == [s EXCEPT !.k = k2,
                        !.passed_synced =
                            @ /\ \A j \in k..(k2 - 1) : port_structs[j].sync_status]
    IN  IF k2 > Len(port_structs)
        THEN /\ tsync' = [s2 EXCEPT !.wait_over_at = at]
             /\ pc' = "sync_delay"
        ELSE /\ tsync' = s2
             /\ pc' = "sync_sleeping"

\* add_toggle_port_sync_state_steps up to its first await: it returns when
\* toggle_port_sync is not set, otherwise sync OFF is gathered for every port
add_toggle_port_sync_state_steps ==
    /\ pc = "toggle_sync"
    /\ IF ~test_conf.toggle_port_sync
       THEN /\ pc' = "setup_streams"
            /\ tsync' = [NoSync EXCEPT !.called = TRUE, !.entered_at = now,
                                       !.returned_at = now]
            /\ UNCHANGED <<pending, ret, cmds>>
       ELSE /\ pending' = {set_toggle_port_sync(i, "OFF") :
                              i \in DOMAIN port_structs}
            /\ pc' = "apply"
            /\ ret' = "sync_off_sleep"
            /\ cmds' = EmptyLog
            /\ tsync' = [NoSync EXCEPT !.called = TRUE, !.entered_at = now]
    /\ UNCHANGED <<all_confs, stop_on_los, port_structs, mapping, port_sync,
                   task, local_time>>
    /\ UNCHANGED <<quitVars, b2bVars, arVars, l3Vars, confVars, restVars, mac>>

\* asyncio.sleep(sync_off_duration_second) returns and sync ON is gathered
sync_off_sleep(j) ==
    /\ pc = "sync_off_sleep"
    /\ now' = now + test_conf.sync_off_duration_second + j
    /\ pending' = {set_toggle_port_sync(i, "ON") : i \in DOMAIN port_structs}
    /\ pc' = "apply"
    /\ ret' = "sync_wait"
    /\ tsync' = [tsync EXCEPT !.off_done_at = now, !.on_at = now']
    /\ UNCHANGED <<all_confs, stop_on_los, port_structs, mapping, port_sync,
                   task, local_time, cmds>>
    /\ UNCHANGED <<quit_args, quit_ret, quit_warned, fresh, xoa_out, los_warned>>
    /\ UNCHANGED <<b2bVars, arVars, l3Vars, confVars, restVars, mac>>

\* start_time = time.time() and the first pass over the ports
sync_wait_start ==
    /\ pc = "sync_wait"
    /\ sync_poll([tsync EXCEPT
                    !.start_time = now,
                    !.reached = [i \in DOMAIN port_structs |->
                                    IF port_structs[i].sync_status
                                    THEN "before" ELSE "none"]],
                 1, now)
    /\ UNCHANGED <<all_confs, stop_on_los, port_structs, mapping, ret, port_sync,
                   pending, task, local_time, cmds>>
    /\ UNCHANGED <<quitVars, b2bVars, arVars, l3Vars, confVars, restVars, mac>>

\* asyncio.sleep(const.DELAY_CHECK_SYNC) returns: the timeout check, then the
\* loops go on
sync_check(j) ==
    /\ pc = "sync_sleeping"
    /\ now' = now + DELAY_CHECK_SYNC + j
    /\ IF now' - tsync.start_time > sync_timeout
       THEN /\ tsync' = [tsync EXCEPT !.error = "TimeoutError",
                                      !.timeout_port = tsync.k]
            /\ pc' = "raised"
       ELSE sync_poll(tsync, tsync.k, now')
    /\ UNCHANGED <<all_confs, stop_on_los, port_structs, mapping, ret, port_sync,
                   pending, task, local_time, cmds>>
    /\ UNCHANGED <<quit_args, quit_ret, quit_warned, fresh, xoa_out, los_warned>>
    /\ UNCHANGED <<b2bVars, arVars, l3Vars, confVars, restVars, mac>>

\* asyncio.sleep(delay_after_sync_on_second) returns and so does the call
sync_delay_sleep(j) ==
    /\ pc = "sync_delay"
    /\ now' = now + test_conf.delay_after_sync_on_second + j
    /\ pc' = "setup_streams"
    /\ tsync' = [tsync EXCEPT
                   !.returned_at = now',
                   !.all_synced_at_return =
                       \A i \in DOMAIN port_structs : port_structs[i].sync_status]
    /\ UNCHANGED <<all_confs, stop_on_los, port_structs, mapping, ret, port_sync,
                   pending, task, local_time, cmds>>
    /\ UNCHANGED <<quit_args, quit_ret, quit_warned, fresh, xoa_out, los_warned>>
    /\ UNCHANGED <<b2bVars, arVars, l3Vars, confVars, restVars, mac>>

\* the driver reports a change of a port's sync status while the call is
\* suspended in a gather or a sleep
sync_status_change(i, b) ==
    /\ test_conf.toggle_port_sync
    /\ pc \in {"apply", "sync_off_sleep", "sync_sleeping", "sync_delay"}
    /\ port_structs[i].sync_status # b
    /\ port_structs' = [port_structs EXCEPT ![i].sync_status = b]
    /\ tsync' = IF b /\ tsync.start_time >= 0 /\ tsync.reached[i] = "none"
                THEN [tsync EXCEPT !.reached[i] =
                        IF now - tsync.start_time < sync_timeout
                        THEN "before" ELSE "after"]
                ELSE tsync
    /\ UNCHANGED <<all_confs, stop_on_los, mapping, pc, ret, port_sync, pending,
                   task, local_time, cmds>>
    /\ UNCHANGED <<quitVars, b2bVars, arVars, l3Vars, confVars, restVars, mac>>

(***************************************************************************)
(* The tail of init_resource: setup_streams and MAC learning               *)
(***************************************************************************)
MacModes == {"never", "once", "every_trial"}

\* the mode the test loop asks for before a trial
TrialModes == {"every_trial"}

MacFrameCounts == 1..MaxFrameCount

\* max_xmit_one_packet_length of a port
MacCaps == {64, 131, 132}

\* if cur_length > max_cap
mac_rejects_mut(i) == max_xmit[i] < 0
mac_rejects(i) == learning_frame_length > max_xmit[i]

\* require_mode != resources.test_conf.mac_learning_mode is false
mac_mode_matches_mut(require_mode) == require_mode \in MacModes
mac_mode_matches(require_mode) == require_mode = test_conf.mac_learning_mode

\* add_mac_learning_steps(resources, require_mode), up to the loop; back is
\* where the caller goes on
mac_steps_enter(require_mode, back) ==
    LET m == [NoMac EXCEPT !.called = TRUE, !.require_mode = require_mode,
                           !.sent = [i \in DOMAIN port_structs |-> 0]]
    IN  IF mac_mode_matches(require_mode)
        THEN /\ mac' = [m EXCEPT !.k = 1]
             /\ pc' = "mac_learning"
             /\ ret' = back
        ELSE /\ mac' = m
             /\ pc' = back
             /\ ret' = "none"

\* setup_streams, then add_mac_learning_steps(self, MACLearningMode.ONCE)
init_mac_learning ==
    /\ pc = "setup_streams"
    /\ mac_steps_enter("once", "ready")
    /\ UNCHANGED <<all_confs, stop_on_los, port_structs, mapping, port_sync,
                   pending, task, local_time, cmds>>
    /\ UNCHANGED <<quitVars, b2bVars, arVars, l3Vars, confVars, restVars, tsync>>

\* the test loop calls add_mac_learning_steps before a trial
add_mac_learning_steps(require_mode) ==
    /\ pc = "ready"
    /\ mac_steps_enter(require_mode, "ready")
    /\ UNCHANGED <<all_confs, stop_on_los, port_structs, mapping, port_sync,
                   pending, task, local_time, cmds>>
    /\ UNCHANGED <<quitVars, b2bVars, arVars, l3Vars, confVars, restVars, tsync>>

\* the loop of add_mac_learning_steps moves past port struct i
mac_next_port(m, i) ==
    IF i = Len(port_structs)
    THEN /\ mac' = [m EXCEPT !.k = 0, !.left = 0]
         /\ pc' = ret
         /\ ret' = "none"
    ELSE /\ mac' = [m EXCEPT !.k = i + 1, !.left = 0]
         /\ UNCHANGED <<pc, ret>>

\* mac_learning(port_struct, mac_learning_frame_count) up to its send loop
mac_learning ==
    /\ pc = "mac_learning"
    /\ mac.left = 0
    /\ LET i == mac.k
           m == [mac EXCEPT !.visited = @ \cup {i}]
       IN  IF ~port_structs[i].port_conf.is_rx_port
           THEN mac_next_port(m, i)
           ELSE IF mac_rejects(i)
           THEN /\ mac' = [m EXCEPT !.error = "PacketLengthExceed"]
                /\ pc' = "raised"
                /\ UNCHANGED ret
           ELSE /\ mac' = [m EXCEPT !.left = test_conf.mac_learning_frame_count]
                /\ UNCHANGED <<pc, ret>>
    /\ UNCHANGED <<all_confs, stop_on_los, port_structs, mapping, port_sync,
                   pending, task, local_time, cmds>>
    /\ UNCHANGED <<quitVars, b2bVars, arVars, l3Vars, confVars, restVars, tsync>>

\* await port_struct.send_packet(packet); await asyncio.sleep(1)
mac_send_packet ==
    /\ pc = "mac_learning"
    /\ mac.left > 0
    /\ LET i == mac.k
           m == [mac EXCEPT !.sent[i] = @ + 1, !.left = @ - 1]
       IN  IF m.left = 0
           THEN mac_next_port(m, i)
           ELSE /\ mac' = m
                /\ UNCHANGED <<pc, ret>>
    /\ UNCHANGED <<all_confs, stop_on_los, port_structs, mapping, port_sync,
                   pending, task, local_time, cmds>>
    /\ UNCHANGED <<quitVars, b2bVars, arVars, l3Vars, confVars, restVars, tsync>>

\* the actions of init_resource every specification runs
NextInit ==
    \/ init_resource
    \/ collect_control_ports
    \/ resolve_port_relations
    \/ build_map
    \/ stop_traffic
    \/ apply_send
    \/ apply_done
    \/ init_resource_setup
    \/ add_toggle_port_sync_state_steps
    \/ init_mac_learning

NextMac ==
    \/ NextInit
    \/ \E require_mode \in TrialModes : add_mac_learning_steps(require_mode)
    \/ mac_learning
    \/ mac_send_packet

NextRM ==
    \/ NextInit
    \/ \E sync \in BOOLEAN : start_traffic(sync)
    \/ \E t \in Testers : start_traffic_sync_time(t)
    \/ \E t \in Testers : start_traffic_sync_set(t)
    \/ gather_done
    \/ \E t \in Testers : Tick(t)

(***************************************************************************)
(* BackToBackBoutEntry                                                     *)
(* Bounds and burst values are floats in the code; every value the search  *)
(* produces is a dyadic rational, held here as an integer multiple of      *)
(* 1/Scale, which is exact for MaxUpdates halvings.                        *)
(***************************************************************************)
Scale == 2 ^ (MaxUpdates + 1)

Abs(x) == IF x < 0 THEN -x ELSE x

\* (actual_duration, rate, threshold of the device) of the modelled runs: the
\* port loses no frame exactly for bursts of at most thr frames
B2BRuns ==
    UNION { { [actual_duration |-> d, rate |-> r, thr |-> t] :
                t \in 0..((d * r) \div 100) }
            : <<d, r>> \in {1, 2, 4, 8} \X {50, 100} }
    \cup { [actual_duration |-> 2, rate |-> 100, thr |-> 150] }
    \cup { [actual_duration |-> 200, rate |-> 100, thr |-> t] :
             t \in {0, 149, 150, 151, 200} }

BurstResolutions == {1, 2}

Statistics == {"absent", "not_final", "final_lossless", "final_loss"}

IdleB2B ==
    /\ b2b_conf = [actual_duration |-> 0, rate |-> 0, burst_resolution |-> 0,
                   thr |-> 0, ports |-> 0]
    /\ b2b = <<>>
    /\ b2b_hist = <<>>

\* actual_duration * rate / 100.0
initial_bound_mut(actual_duration, rate) == actual_duration * rate * Scale
initial_bound(actual_duration, rate) ==
    (actual_duration * rate * Scale) \div 100

\* BackToBackBoutEntry.__init__ for port struct p
BackToBackBoutEntry(conf, p) ==
    [ port |-> p,
      left_bound |-> 0,
      right_bound |-> initial_bound(conf.actual_duration, conf.rate),
      current |-> initial_bound(conf.actual_duration, conf.rate),
      next |-> initial_bound(conf.actual_duration, conf.rate),
      last_move |-> 0,
      port_should_continue |-> FALSE,
      port_test_passed |-> FALSE ]

update_left_bound(c) ==
    [c EXCEPT !.left_bound = c.current,
              !.next = (c.current + c.right_bound) \div 2,
              !.last_move = -1]

update_right_bound_mut(c) ==
    [c EXCEPT !.right_bound = c.current,
              !.next = c.left_bound + c.current,
              !.last_move = 1]
update_right_bound(c) ==
    [c EXCEPT !.right_bound = c.current,
              !.next = (c.left_bound + c.current) \div 2,
              !.last_move = 1]

\* abs(self.next - self.current) <= res
pointer_converged_mut(c, res) == Abs(c.next - c.current) = 0
pointer_converged(c, res) == Abs(c.next - c.current) <= res

\* compare_search_pointer: the value returned and the controller it leaves
compare_search_pointer(c, res) ==
    IF pointer_converged(c, res)
    THEN [ ret |-> TRUE,
           entry |-> IF c.next >= c.current
                     THEN IF c.right_bound - c.current <= res
                          THEN [c EXCEPT !.current = c.right_bound] ELSE c
                     ELSE IF c.current - c.left_bound <= res
                          THEN [c EXCEPT !.current = c.left_bound] ELSE c ]
    ELSE [ret |-> FALSE, entry |-> c]

\* not self._port_struct.statistic or (... and not ....statistic.is_final)
statistic_not_final_mut(stat) == stat = "absent"
statistic_not_final(stat) == stat \in {"absent", "not_final"}

\* update_boundaries on controller c whose port's latest statistic is stat
update_boundaries_entry(c, stat, res) ==
    LET c0 == [c EXCEPT !.port_should_continue = FALSE,
                        !.port_test_passed = FALSE]
    IN  IF statistic_not_final(stat)
        THEN [c0 EXCEPT !.port_should_continue = TRUE]
        ELSE LET c1 == IF c0.left_bound <= c0.right_bound
                       THEN LET c2 == IF stat = "final_lossless"
                                      THEN update_left_bound(c0)
                                      ELSE update_right_bound(c0)
                                r == compare_search_pointer(c2, res)
                            IN  IF r.ret
                                THEN [r.entry EXCEPT !.port_test_passed = TRUE]
                                ELSE [r.entry EXCEPT !.port_should_continue = TRUE]
                       ELSE c0
             IN  [c1 EXCEPT !.current = c1.next]

\* the controllers get_initial_back_to_back_boundaries builds for k tx ports
initial_entries(conf, k) == <<BackToBackBoutEntry(conf, 1)>>

InitB2BConf ==
    /\ b2b_conf \in
          { [actual_duration |-> run.actual_duration, rate |-> run.rate,
             burst_resolution |-> res * Scale, thr |-> run.thr * Scale,
             ports |-> k] :
              run \in B2BRuns, res \in BurstResolutions, k \in 1..MaxB2BPorts }
    /\ b2b = <<>>
    /\ b2b_hist = <<>>

get_initial_back_to_back_boundaries ==
    /\ b2b = <<>>
    /\ b2b' = initial_entries(b2b_conf, b2b_conf.ports)
    /\ b2b_hist' = [e \in DOMAIN b2b' |->
                       [finals |-> 0, passed_at |-> 0, consistent |-> TRUE,
                        last_stat |-> "none", before |-> b2b'[e]]]
    /\ UNCHANGED <<rmVars, quitVars, b2b_conf, arVars, stepVars>>

\* update_boundaries on controller e, the latest statistic of its port being stat
update_boundaries(e, stat) ==
    /\ e \in DOMAIN b2b
    /\ b2b_hist[e].finals < MaxUpdates
    /\ LET c == update_boundaries_entry(b2b[e], stat, b2b_conf.burst_resolution)
           final == stat \in {"final_lossless", "final_loss"}
           h == b2b_hist[e]
           n == IF final THEN h.finals + 1 ELSE h.finals
       IN  /\ b2b' = [b2b EXCEPT ![e] = c]
           /\ b2b_hist' = [b2b_hist EXCEPT ![e] =
                  [ finals |-> n,
                    passed_at |-> IF h.passed_at = 0 /\ c.port_test_passed
                                  THEN n ELSE h.passed_at,
                    consistent |-> /\ h.consistent
                                   /\ final => ((stat = "final_lossless")
                                                  <=> (b2b[e].current <= b2b_conf.thr)),
                    last_stat |-> stat,
                    before |-> b2b[e] ]]
    /\ UNCHANGED <<rmVars, quitVars, b2b_conf, arVars, stepVars>>

NextB2B ==
    \/ get_initial_back_to_back_boundaries
    \/ \E e \in 1..MaxB2BPorts, stat \in Statistics : update_boundaries(e, stat)

(***************************************************************************)
(* AddressRefreshHandler                                                   *)
(***************************************************************************)
\* const.MIN_REFRESH_TIMER_INTERNAL, in ms
MIN_REFRESH_TIMER_INTERNAL == 100

RefreshPeriods == {0, 1, 4, 50, 99, 100, 250, 499, 500, 1000}

TestStates == {"L3_LEARNING", "RUNNING_TEST"}

\* role flags of a port that owns address-refresh data
RefreshRoles ==
    { c \in [is_tx_port : BOOLEAN, is_rx_port : BOOLEAN] :
        c.is_tx_port \/ c.is_rx_port }

\* the port lists setup_address_refresh walks: every port holds one learning
\* packet
RefreshPorts == UNION { [1..n -> RefreshRoles] : n \in 0..MaxTokens }

\* setup_address_refresh: one (token, is_rx_only) entry per learning packet;
\* token i is the send command of port i
setup_address_refresh_mut(ports) ==
    [i \in DOMAIN ports |->
        [token |-> i, is_rx_only |-> ports[i].is_rx_port]]
setup_address_refresh(ports) ==
    [i \in DOMAIN ports |->
        [token |-> i,
         is_rx_only |-> ports[i].is_rx_port /\ ~ports[i].is_tx_port]]

CeilDiv(a, b) == (a + b - 1) \div b

\* AddressRefreshHandler.__init__; interval is held in ms
AddressRefreshHandler(address_refresh_tokens, refresh_period) ==
    [ index |-> 0,
      refresh_burst_size |-> 1,
      tokens |-> <<>>,
      address_refresh_tokens |-> address_refresh_tokens,
      interval |-> 0,
      refresh_period |-> refresh_period,
      state |-> "L3_LEARNING",
      configured |-> FALSE,
      error |-> "none" ]

NoCalls == [called |-> FALSE, from |-> 0, calls |-> 0, seen |-> {},
            early_repeat |-> FALSE]

IdleAR ==
    /\ arh = AddressRefreshHandler(<<>>, 0)
    /\ ar_batch = <<>>
    /\ ar_ports = <<>>
    /\ ar_hist = NoCalls

RECURSIVE get_batch_loop(_, _, _, _)
\* the for loop of get_batch: n rounds left, index idx, packet_list so far
get_batch_loop(tokens, n, idx, packet_list) ==
    IF n = 0 THEN [index |-> idx, packet_list |-> packet_list]
    ELSE IF idx < Len(tokens)
         THEN get_batch_loop(tokens, n - 1, idx + 1,
                             Append(packet_list, tokens[idx + 1]))
         ELSE get_batch_loop(tokens, n - 1, idx, packet_list)

\* math.floor(self.refresh_period / total_refresh_count)
floor_interval_mut(refresh_period, total_refresh_count) ==
    CeilDiv(refresh_period, total_refresh_count)
floor_interval(refresh_period, total_refresh_count) ==
    refresh_period \div total_refresh_count

\* _calc_refresh_time_interval on handler h for its token list
calc_refresh_time_interval(h) ==
    LET total_refresh_count == Len(h.tokens)
        interval == floor_interval(h.refresh_period, total_refresh_count)
    IN  IF total_refresh_count > 0
        THEN IF interval < MIN_REFRESH_TIMER_INTERNAL
             THEN IF interval = 0
                  THEN [h EXCEPT !.refresh_burst_size = 1,
                                 !.error = "ZeroDivisionError"]
                  ELSE [h EXCEPT !.refresh_burst_size =
                                     CeilDiv(MIN_REFRESH_TIMER_INTERNAL, interval),
                                 !.interval = MIN_REFRESH_TIMER_INTERNAL]
             ELSE [h EXCEPT !.refresh_burst_size = 1, !.interval = interval]
        ELSE h

RECURSIVE SelectTokens(_, _)
\* refresh_token[0] of the entries of list, in list order; with rx_only set,
\* of the entries whose refresh_token[1] is true
SelectTokens(list, rx_only) ==
    IF list = <<>> THEN <<>>
    ELSE (IF ~rx_only \/ Head(list).is_rx_only THEN <<Head(list).token>> ELSE <<>>)
         \o SelectTokens(Tail(list), rx_only)

\* setup_address_arp_refresh
InitAR ==
    /\ ar_ports \in RefreshPorts
    /\ \E period \in RefreshPeriods :
          arh = AddressRefreshHandler(setup_address_refresh(ar_ports), period)
    /\ ar_batch = <<>>
    /\ ar_hist = NoCalls

\* the handler after set_current_state(state)
handler_in_state(state) ==
    LET tokens == IF state = "L3_LEARNING"
                  THEN SelectTokens(arh.address_refresh_tokens, FALSE)
                  ELSE SelectTokens(arh.address_refresh_tokens, TRUE)
        h == [arh EXCEPT !.state = state, !.tokens = tokens,
                         !.configured = TRUE]
    IN  calc_refresh_time_interval(h)

set_current_state(state) ==
    /\ arh.error = "none"
    /\ arh' = handler_in_state(state)
    /\ ar_hist' = NoCalls
    /\ UNCHANGED <<rmVars, quitVars, b2bVars, ar_batch, ar_ports, stepVars>>

\* what a get_batch call leaves: the new index and the packet_list returned
next_batch_mut ==
    LET idx == IF arh.index > Len(arh.tokens) THEN 0 ELSE arh.index
    IN  get_batch_loop(arh.tokens, arh.refresh_burst_size, idx, <<>>)
next_batch ==
    LET idx == IF arh.index >= Len(arh.tokens) THEN 0 ELSE arh.index
    IN  get_batch_loop(arh.tokens, arh.refresh_burst_size, idx, <<>>)

\* packet_list returns a token that was returned before, in seen or earlier
\* in the list, while another active token has not been returned yet
returned_early(seen, packet_list) ==
    \E j \in DOMAIN packet_list :
        LET prior == seen \cup {packet_list[i] : i \in 1..(j - 1)}
        IN  /\ packet_list[j] \in prior
            /\ ~(Range(arh.tokens) \subseteq prior)

\* the record of the calls once a get_batch call has returned r
hist_after_batch(r) ==
    IF ar_hist.called /\ ar_hist.seen = Range(arh.tokens)
    THEN [ar_hist EXCEPT !.from = arh.index]
    ELSE [called |-> TRUE, from |-> arh.index,
          calls |-> ar_hist.calls + 1,
          seen |-> ar_hist.seen \cup Range(r.packet_list),
          early_repeat |-> ar_hist.early_repeat
                             \/ returned_early(ar_hist.seen, r.packet_list)]

get_batch ==
    /\ arh.error = "none"
    /\ arh' = [arh EXCEPT !.index = next_batch.index]
    /\ ar_batch' = next_batch.packet_list
    /\ ar_hist' = hist_after_batch(next_batch)
    /\ UNCHANGED <<rmVars, quitVars, b2bVars, ar_ports, stepVars>>

NextRefresh ==
    \/ \E state \in TestStates : set_current_state(state)
    \/ get_batch

IdleRM ==
    /\ InitRM({<<>>}, {FALSE})
    /\ InitQuit
    /\ IdleSteps

InitB2B ==
    /\ IdleRM
    /\ InitB2BConf
    /\ IdleAR

SpecB2B == InitB2B /\ [][NextB2B]_vars

InitRefresh ==
    /\ IdleRM
    /\ IdleB2B
    /\ InitAR

SpecRefresh == InitRefresh /\ [][NextRefresh]_vars

(***************************************************************************)
(* should_quit and the port status it reads                                *)
(***************************************************************************)
\* the layouts polled by should_quit: slot i sits on the i-th identity
QuitIdentity(i) ==
    CASE i = 1 -> [tester_id |-> "A", module_index |-> 0, port_index |-> 0]
      [] i = 2 -> [tester_id |-> "B", module_index |-> 1, port_index |-> 2]
      [] i = 3 -> [tester_id |-> "A", module_index |-> 0, port_index |-> 1]
      [] OTHER -> [tester_id |-> "B", module_index |-> 0, port_index |-> 0]

QuitLayouts ==
    UNION { { s \in [1..n -> PortConfs] :
                \A i \in 1..n : s[i].port_identity = QuitIdentity(i) }
            : n \in 1..MaxQuitPorts }

StartTimes == {0, 1}

ActualDurations == {0, 1}

\* the guard added to actual_duration in should_quit
quit_guard == 5

test_running == \E i \in tx_ports : port_structs[i].traffic_status

test_finished == \A i \in tx_ports : ~port_structs[i].traffic_status

los_mut == ~(\A i \in DOMAIN port_structs : port_structs[i].sync_status)
los ==
    IF stop_on_los
    THEN ~(\A i \in DOMAIN port_structs : port_structs[i].sync_status)
    ELSE FALSE

\* the caller has used the value should_quit returned: the record of the call
\* is dropped as soon as the ports or the clock move on
Consumed ==
    /\ quit_args' = [start_time |-> 0, actual_duration |-> 0]
    /\ quit_ret' = FALSE
    /\ quit_warned' = FALSE
    /\ fresh' = FALSE

\* the driver reports a change of a port's sync status
on_sync_change(i, b) ==
    /\ pc = "ready"
    /\ port_structs[i].sync_status # b
    /\ port_structs' = [port_structs EXCEPT ![i].sync_status = b]
    /\ los_warned' = IF b THEN los_warned ELSE 0
    /\ Consumed
    /\ UNCHANGED <<all_confs, stop_on_los, mapping, pc, ret, port_sync, pending,
                   task, local_time, cmds>>
    /\ UNCHANGED <<now, xoa_out, b2bVars, arVars, stepVars>>

\* the driver reports a change of a tx port's traffic status
on_traffic_change(i, b) ==
    /\ pc = "ready"
    /\ i \in tx_ports
    /\ port_structs[i].traffic_status # b
    /\ port_structs' = [port_structs EXCEPT ![i].traffic_status = b]
    /\ Consumed
    /\ UNCHANGED <<all_confs, stop_on_los, mapping, pc, ret, port_sync, pending,
                   task, local_time, cmds>>
    /\ UNCHANGED <<now, xoa_out, los_warned, b2bVars, arVars, stepVars>>

\* time passes
TickNow ==
    /\ pc = "ready"
    /\ now < MaxNow
    /\ now' = now + 1
    /\ Consumed
    /\ UNCHANGED <<rmVars, xoa_out, los_warned, b2bVars, arVars, stepVars>>

should_quit(start_time, actual_duration) ==
    /\ pc = "ready"
    /\ los => xoa_out < MaxWarnings
    /\ start_time <= now
    /\ LET finished == test_finished
           elapsed == now - start_time
           actual_duration_elapsed == elapsed >= actual_duration + quit_guard
           lost == los
       IN  /\ xoa_out' = IF lost THEN xoa_out + 1 ELSE xoa_out
           /\ los_warned' = IF lost THEN los_warned + 1 ELSE los_warned
           /\ quit_warned' = lost
           /\ quit_ret' = (finished \/ lost \/ actual_duration_elapsed)
    /\ quit_args' = [start_time |-> start_time, actual_duration |-> actual_duration]
    /\ fresh' = TRUE
    /\ UNCHANGED <<rmVars, now, b2bVars, arVars, stepVars>>

NextQuit ==
    \/ NextInit
    \/ \E i \in DOMAIN port_structs, b \in BOOLEAN : on_sync_change(i, b)
    \/ \E i \in DOMAIN port_structs, b \in BOOLEAN : on_traffic_change(i, b)
    \/ TickNow
    \/ \E st \in StartTimes, d \in ActualDurations : should_quit(st, d)

InitQ ==
    /\ InitRM(QuitLayouts, BOOLEAN)
    /\ InitQuit
    /\ IdleSteps
    /\ IdleB2B
    /\ IdleAR

SpecQuit == InitQ /\ [][NextQuit]_vars

(***************************************************************************)
(* L3 learning preamble and the address-refresh schedule                   *)
(***************************************************************************)
LearningDurations == {1, 2}

LearningRates == {50}

\* refresh periods of the handler handed to the learning operations
LearnPeriods == {1, 250, 1000}

\* the role flags of the configured ports
RolesOf(confs) ==
    [i \in DOMAIN confs |->
        [is_tx_port |-> confs[i].is_tx_port, is_rx_port |-> confs[i].is_rx_port]]

\* a command the learning operation issued
Step(cmd, arg) == [cmd |-> cmd, arg |-> arg]

\* the operation in progress issues a command
Issue(cmd, arg, next) ==
    l3' = [l3 EXCEPT !.log = Append(@, Step(cmd, arg)), !.pc = next]

\* setup_address_arp_refresh on the configured ports, or no handler at all
InitL3 ==
    /\ l3_conf \in [handler : BOOLEAN, learning_rate_pct : LearningRates,
                    learning_duration_second : LearningDurations]
    /\ l3 = NoL3
    /\ ar_batch = <<>>
    /\ ar_hist = NoCalls
    /\ IF l3_conf.handler
       THEN /\ ar_ports \in {RolesOf(all_confs), <<>>}
            /\ \E period \in LearnPeriods :
                  arh = AddressRefreshHandler(setup_address_refresh(ar_ports),
                                              period)
       ELSE /\ ar_ports = <<>>
            /\ arh = AddressRefreshHandler(<<>>, 0)

\* the caller of a learning operation takes its return
l3_return(op) == [NoL3 EXCEPT !.pc = "returned", !.op = op]

\* add_L3_learning_preamble_steps up to its first await: without a handler
\* it returns, otherwise set_current_state(L3_LEARNING) and set_rate
add_L3_learning_preamble_steps ==
    /\ pc = "ready"
    /\ l3.pc \in {"idle", "returned"}
    /\ IF ~l3_conf.handler
       THEN /\ l3' = l3_return("preamble")
            /\ UNCHANGED <<arh, ar_hist>>
       ELSE /\ arh' = handler_in_state("L3_LEARNING")
            /\ ar_hist' = NoCalls
            /\ l3' = IF arh'.error # "none"
                     THEN [NoL3 EXCEPT !.pc = "raised", !.op = "preamble"]
                     ELSE [NoL3 EXCEPT
                             !.pc = "setup_source_port_rates", !.op = "preamble",
                             !.log = <<Step("set_rate",
                                            l3_conf.learning_rate_pct)>>]
    /\ cmds' = EmptyLog
    /\ UNCHANGED <<all_confs, stop_on_los, port_structs, mapping, pc, ret,
                   port_sync, pending, task, local_time>>
    /\ UNCHANGED <<quitVars, b2bVars, ar_batch, ar_ports, l3_conf, confVars, restVars, mac, tsync>>

\* await setup_source_port_rates(resources, current_packet_size)
l3_setup_source_port_rates ==
    /\ pc = "ready"
    /\ l3.pc = "setup_source_port_rates"
    /\ Issue("setup_source_port_rates", 0, "set_tx_time_limit")
    /\ UNCHANGED <<rmVars, quitVars, b2bVars, arVars, l3_conf, confVars, restVars, mac, tsync>>

\* await resources.set_tx_time_limit(learning_duration_second * 1000)
l3_time_limit == l3_conf.learning_duration_second * 1000

l3_set_tx_time_limit ==
    /\ pc = "ready"
    /\ l3.pc = "set_tx_time_limit"
    /\ Issue("set_tx_time_limit", l3_time_limit, "start_traffic")
    /\ UNCHANGED <<rmVars, quitVars, b2bVars, arVars, l3_conf, confVars, restVars, mac, tsync>>

\* await resources.start_traffic(): START for every tx port through utils.apply
l3_start_traffic ==
    /\ pc = "ready"
    /\ l3.pc = "start_traffic"
    /\ Issue("start_traffic", 0, "gather_tokens")
    /\ port_sync' = FALSE
    /\ pending' = {set_traffic(i, "START") : i \in start_ports}
    /\ pc' = "apply"
    /\ ret' = "ready"
    /\ UNCHANGED <<all_confs, stop_on_los, port_structs, mapping, task,
                   local_time, cmds>>
    /\ UNCHANGED <<quitVars, b2bVars, arVars, l3_conf, confVars, restVars, mac, tsync>>

\* await asyncio.gather(*address_refresh_handler.tokens)
l3_gather_tokens ==
    /\ pc = "ready"
    /\ l3.pc = "gather_tokens"
    /\ Issue("send", arh.tokens, "schedule_arp_refresh")
    /\ UNCHANGED <<rmVars, quitVars, b2bVars, arVars, l3_conf, confVars, restVars, mac, tsync>>

\* where a learning operation goes once schedule_arp_refresh has returned
after_refresh == IF l3.op = "preamble" THEN "wait" ELSE "returned"

\* schedule_arp_refresh(resources, handler, state) up to its first await
schedule_arp_refresh_from(state, op) ==
    /\ pc = "ready"
    /\ IF ~l3_conf.handler
       THEN /\ l3' = l3_return(op)
            /\ UNCHANGED <<arh, ar_hist>>
       ELSE /\ arh' = handler_in_state(state)
            /\ ar_hist' = NoCalls
            /\ LET cur == IF op = "preamble" THEN l3
                          ELSE [NoL3 EXCEPT !.op = op]
               IN  l3' = IF arh'.error # "none"
                         THEN [cur EXCEPT !.pc = "raised"]
                         ELSE IF arh'.tokens # <<>>
                         THEN [cur EXCEPT !.pc = "schedule"]
                         ELSE [cur EXCEPT !.pc =
                                 IF op = "preamble" THEN "wait" ELSE "returned"]
    /\ UNCHANGED <<rmVars, quitVars, b2bVars, ar_batch, ar_ports, l3_conf, confVars, restVars, mac, tsync>>

\* the test loop calls schedule_arp_refresh
schedule_arp_refresh(state) ==
    /\ l3.pc \in {"idle", "returned"}
    /\ schedule_arp_refresh_from(state, "refresh")

\* the preamble calls schedule_arp_refresh(resources, handler, L3_LEARNING)
l3_schedule_arp_refresh ==
    /\ l3.pc = "schedule_arp_refresh"
    /\ schedule_arp_refresh_from("L3_LEARNING", "preamble")

\* the value generate_l3_learning_packets returns
stop_schedule_mut == test_running
stop_schedule == ~test_running

\* schedule: the position after a call of the scheduled function that
\* returned stop
schedule_after(stop) == IF stop THEN after_refresh ELSE "sleep"

\* generate_l3_learning_packets, called by schedule: one batch is applied
generate_l3_learning_packets ==
    /\ pc = "ready"
    /\ l3.pc = "schedule"
    /\ l3.fires < MaxBatches
    /\ arh' = [arh EXCEPT !.index = next_batch.index]
    /\ ar_batch' = next_batch.packet_list
    /\ ar_hist' = hist_after_batch(next_batch)
    /\ l3' = [l3 EXCEPT
                !.log = Append(@, Step("batch", next_batch.packet_list)),
                !.fires = @ + 1,
                !.idle_fires = IF test_running THEN @ ELSE @ + 1,
                !.last_running = test_running,
                !.pc = schedule_after(stop_schedule)]
    /\ UNCHANGED <<rmVars, quitVars, b2bVars, ar_ports, l3_conf, confVars, restVars, mac, tsync>>

\* schedule: one interval passes between two calls of the scheduled function
schedule_sleep ==
    /\ pc = "ready"
    /\ l3.pc = "sleep"
    /\ l3' = [l3 EXCEPT !.sleeps = @ + 1, !.pc = "schedule"]
    /\ UNCHANGED <<rmVars, quitVars, b2bVars, arVars, l3_conf, confVars, restVars, mac, tsync>>

\* while resources.test_running(): query_traffic_status, sleep(1)
l3_query_traffic_status ==
    /\ pc = "ready"
    /\ l3.pc = "wait"
    /\ test_running
    /\ l3.queries < MaxBatches
    /\ l3' = [l3 EXCEPT !.log = Append(@, Step("query_traffic_status", 0)),
                        !.queries = @ + 1]
    /\ UNCHANGED <<rmVars, quitVars, b2bVars, arVars, l3_conf, confVars, restVars, mac, tsync>>

\* the wait loop ends as it is entered
l3_wait_over_mut == TRUE
l3_wait_over == ~test_running

\* the loop ends and resources.set_tx_time_limit(0) is awaited
l3_clear_tx_time_limit ==
    /\ pc = "ready"
    /\ l3.pc = "wait"
    /\ l3_wait_over
    /\ l3' = [l3 EXCEPT !.log = Append(@, Step("set_tx_time_limit", 0)),
                        !.clear_running = test_running,
                        !.pc = "returned"]
    /\ UNCHANGED <<rmVars, quitVars, b2bVars, arVars, l3_conf, confVars, restVars, mac, tsync>>

\* the positions of the L3 learning preamble at which its task is suspended
\* in an await
L3Suspended ==
    {"setup_source_port_rates", "set_tx_time_limit", "start_traffic",
     "gather_tokens", "schedule_arp_refresh", "schedule", "sleep", "wait"}

\* the root task is cancelled while add_L3_learning_preamble_steps is
\* suspended: CancelledError is raised at the await and leaves the function,
\* which has no except or finally clause; tokens utils.apply has not sent
\* are dropped
l3_cancel ==
    /\ pc \in {"ready", "apply"}
    /\ l3.op = "preamble"
    /\ l3.pc \in L3Suspended
    /\ l3' = [l3 EXCEPT !.pc = "cancelled"]
    /\ pc' = "ready"
    /\ ret' = "none"
    /\ pending' = {}
    /\ UNCHANGED <<all_confs, stop_on_los, port_structs, mapping, port_sync,
                   task, local_time, cmds>>
    /\ UNCHANGED <<quitVars, b2bVars, arVars, l3_conf, confVars, restVars, mac, tsync>>

NextLearning ==
    \/ NextInit
    \/ \E i \in DOMAIN port_structs, b \in BOOLEAN : on_traffic_change(i, b)
    \/ add_L3_learning_preamble_steps
    \/ l3_setup_source_port_rates
    \/ l3_set_tx_time_limit
    \/ l3_start_traffic
    \/ l3_gather_tokens
    \/ l3_schedule_arp_refresh
    \/ \E state \in TestStates : schedule_arp_refresh(state)
    \/ generate_l3_learning_packets
    \/ schedule_sleep
    \/ l3_query_traffic_status
    \/ l3_clear_tx_time_limit

InitLearning ==
    /\ InitRM(QuitLayouts, {FALSE})
    /\ InitQuit
    /\ IdleB2B
    /\ InitL3
    /\ IdleConf
    /\ IdleMac
    /\ IdleSync
    /\ IdleRest

SpecLearning == InitLearning /\ [][NextLearning]_vars

\* the learning operations under cancellation of the root task
NextCancel ==
    \/ NextLearning
    \/ l3_cancel

SpecCancel == InitLearning /\ [][NextCancel]_vars

InitMacConf ==
    /\ \E mode \in MacModes, count \in MacFrameCounts :
          test_conf = [is_mesh_topology |-> TRUE,
                       port_group |-> [i \in DOMAIN all_confs |-> "undefined"],
                       toggle_port_sync |-> FALSE,
                       sync_off_duration_second |-> 0,
                       delay_after_sync_on_second |-> 0,
                       mac_learning_mode |-> mode,
                       mac_learning_frame_count |-> count]
    /\ max_xmit \in [DOMAIN all_confs -> MacCaps]

InitMac ==
    /\ InitRM(QuitLayouts, {FALSE})
    /\ InitQuit
    /\ IdleB2B
    /\ IdleAR
    /\ IdleL3
    /\ InitMacConf
    /\ IdleMac
    /\ IdleSync
    /\ IdleRest

SpecMac == InitMac /\ [][NextMac]_vars

\* every configured port is both tx and rx
SyncLayouts ==
    {s \in QuitLayouts : \A i \in DOMAIN s : s[i].is_tx_port /\ s[i].is_rx_port}

InitSyncConf ==
    /\ \E toggle \in BOOLEAN, off \in SyncOffDurations,
          delay \in DelaysAfterSyncOn :
          test_conf = [is_mesh_topology |-> TRUE,
                       port_group |-> [i \in DOMAIN all_confs |-> "undefined"],
                       toggle_port_sync |-> toggle,
                       sync_off_duration_second |-> off,
                       delay_after_sync_on_second |-> delay,
                       mac_learning_mode |-> "never",
                       mac_learning_frame_count |-> 1]
    /\ max_xmit = [i \in DOMAIN all_confs |-> learning_frame_length]

NextSync ==
    \/ NextInit
    \/ \E j \in Jitters : sync_off_sleep(j)
    \/ sync_wait_start
    \/ \E j \in Jitters : sync_check(j)
    \/ \E j \in Jitters : sync_delay_sleep(j)
    \/ \E i \in DOMAIN port_structs, b \in BOOLEAN : sync_status_change(i, b)

InitSync ==
    /\ InitRM(SyncLayouts, {FALSE})
    /\ InitQuit
    /\ IdleB2B
    /\ IdleAR
    /\ IdleL3
    /\ InitSyncConf
    /\ IdleMac
    /\ IdleSync
    /\ IdleRest

SpecSync == InitSync /\ [][NextSync]_vars

\* resolve_port_relations under every topology kind and every assignment of
\* port groups
InitRelationsConf ==
    /\ \E mesh \in BOOLEAN, groups \in [DOMAIN all_confs -> PortGroups] :
          test_conf = [is_mesh_topology |-> mesh,
                       port_group |-> groups,
                       toggle_port_sync |-> FALSE,
                       sync_off_duration_second |-> 0,
                       delay_after_sync_on_second |-> 0,
                       mac_learning_mode |-> "never",
                       mac_learning_frame_count |-> 1]
    /\ max_xmit = [i \in DOMAIN all_confs |-> learning_frame_length]

InitRelations ==
    /\ InitRM(QuitLayouts, {FALSE})
    /\ InitQuit
    /\ IdleB2B
    /\ IdleAR
    /\ IdleL3
    /\ InitRelationsConf
    /\ IdleMac
    /\ IdleSync
    /\ IdleRest

NextRelations == NextInit

SpecRelations == InitRelations /\ [][NextRelations]_vars

\* init_resource called again on the ResourceManager it has prepared
InitReinit ==
    /\ InitRM(QuitLayouts, {FALSE})
    /\ InitQuit
    /\ IdleB2B
    /\ IdleAR
    /\ IdleSteps

NextReinit ==
    \/ NextInit
    \/ init_resource_again

SpecReinit == InitReinit /\ [][NextReinit]_vars

\* init_resource on a test bed that may hold Chimera modules and a
\* configuration check_config may reject, with the sync toggle and the MAC
\* learning of the later steps
InitBootConf ==
    /\ \E toggle \in BOOLEAN, mode \in {"never", "once"} :
          test_conf = [is_mesh_topology |-> TRUE,
                       port_group |-> [i \in DOMAIN all_confs |-> "undefined"],
                       toggle_port_sync |-> toggle,
                       sync_off_duration_second |-> 1,
                       delay_after_sync_on_second |-> 0,
                       mac_learning_mode |-> mode,
                       mac_learning_frame_count |-> 1]
    /\ max_xmit = [i \in DOMAIN all_confs |-> learning_frame_length]
    /\ testbed \in [chimera : SUBSET DOMAIN all_confs, config_valid : BOOLEAN]
    /\ init_run = NoInitRun
    /\ IdlePoll
    /\ IdleRxTables
    /\ IdleSegments

InitBoot ==
    /\ InitRM(SyncLayouts, {FALSE})
    /\ InitQuit
    /\ IdleB2B
    /\ IdleAR
    /\ IdleL3
    /\ InitBootConf
    /\ IdleMac
    /\ tsync = NoSync

NextBoot ==
    \/ NextSync
    \/ mac_learning
    \/ mac_send_packet

SpecBoot == InitBoot /\ [][NextBoot]_vars

(***************************************************************************)
(* ResourceManager.collect and StreamStruct.query                          *)
(***************************************************************************)
\* role flags of a polled port
PollRoles ==
    {r \in [is_tx_port : BOOLEAN, is_rx_port : BOOLEAN] :
        r.is_tx_port \/ r.is_rx_port}

\* the rx port lists a tx port's StreamStruct can have: rx ports other than
\* the tx port itself; a port that is no tx port hosts no stream
StreamLayouts(ports) ==
    { rx \in [DOMAIN ports -> SUBSET DOMAIN ports] :
        \A i \in DOMAIN ports :
            /\ ~ports[i].is_tx_port => rx[i] = {}
            /\ \A j \in rx[i] : j # i /\ ports[j].is_rx_port }

\* a write of the statistic of port owner; writer is the port whose polling
\* task writes, 0 for the coroutine that runs collect()
Write(writer, owner) == [writer |-> writer, owner |-> owner]

\* the port structs whose statistic update_rx_port_statistic writes when the
\* stream of tx port i is queried: the rx port of every PRStream
update_rx_ports_mut(i) == DOMAIN poll.ports \ {i}
update_rx_ports(i) == poll.rx_ports[i]

\* collect(): init_counter on every port struct, then the queries are gathered
collect_begin ==
    /\ poll.phase = "idle"
    /\ poll' = [poll EXCEPT
                  !.phase = "polling",
                  !.pc = [i \in DOMAIN poll.ports |-> "query"],
                  !.writes = {Write(0, i) : i \in DOMAIN poll.ports}]
    /\ UNCHANGED <<rmVars, quitVars, b2bVars, arVars, l3Vars, confVars, mac, tsync,
                   initVars, rxt, segVars>>

\* the polling task of port i: StreamStruct.query awaits the tx counter of
\* the stream; a port that hosts no stream has nothing to query
stream_query(i) ==
    /\ poll.phase = "polling"
    /\ poll.pc[i] = "query"
    /\ poll' = [poll EXCEPT !.pc[i] = IF poll.rx_ports[i] = {} THEN "done"
                                      ELSE "gather"]
    /\ UNCHANGED <<rmVars, quitVars, b2bVars, arVars, l3Vars, confVars, mac, tsync,
                   initVars, rxt, segVars>>

\* the polling task of port i: the gather of the PRStream queries returns,
\* then update_rx_port_statistic of every PRStream and
\* update_tx_port_statistic run without a suspension
stream_update(i) ==
    /\ poll.phase = "polling"
    /\ poll.pc[i] = "gather"
    /\ poll' = [poll EXCEPT
                  !.pc[i] = "done",
                  !.writes = @ \cup {Write(i, j) : j \in update_rx_ports(i)}
                               \cup {Write(i, i)}]
    /\ UNCHANGED <<rmVars, quitVars, b2bVars, arVars, l3Vars, confVars, mac, tsync,
                   initVars, rxt, segVars>>

\* the gather returns and calculate_rate runs on every port struct
collect_end ==
    /\ poll.phase = "polling"
    /\ \A i \in DOMAIN poll.ports : poll.pc[i] = "done"
    /\ poll' = [poll EXCEPT !.phase = "collected"]
    /\ UNCHANGED <<rmVars, quitVars, b2bVars, arVars, l3Vars, confVars, mac, tsync,
                   initVars, rxt, segVars>>

InitPoll ==
    /\ \E n \in 1..MaxPollPorts :
          \E ports \in [1..n -> PollRoles] :
              \E rx \in StreamLayouts(ports) :
                  poll = [NoPoll EXCEPT !.ports = ports, !.rx_ports = rx,
                                        !.pc = [i \in 1..n |-> "idle"]]

NextPoll ==
    \/ collect_begin
    \/ \E i \in DOMAIN poll.ports : stream_query(i)
    \/ \E i \in DOMAIN poll.ports : stream_update(i)
    \/ collect_end

InitCollect ==
    /\ InitRM({<<>>}, {FALSE})
    /\ InitQuit
    /\ IdleB2B
    /\ IdleAR
    /\ IdleL3
    /\ IdleConf
    /\ IdleMac
    /\ tsync = NoSync
    /\ IdleInit
    /\ InitPoll
    /\ IdleRxTables
    /\ IdleSegments

SpecCollect == InitCollect /\ [][NextPoll]_vars

(***************************************************************************)
(* StreamStruct.init_rx_tables                                             *)
(***************************************************************************)
\* the tx port of the streams and its rx peers
TxPort == 1
RxPeers == 2..(1 + MaxRxPeers)

ProtocolVersions == {"ETHERNET", "IPV4", "IPV6"}

\* an address argument that is None
None == <<"None">>

\* StreamOffset(tx_offset, rx_offset); NoOffset stands for None
NoOffset == [tx_offset |-> -1, rx_offset |-> -1]
StreamOffsets == {NoOffset} \cup [tx_offset : {0}, rx_offset : {0, 1}]

\* the _rx_ports lists of a StreamStruct
RxPortLists ==
    UNION { { l \in [1..n -> RxPeers] : \A i, j \in 1..n : i # j => l[i] # l[j] }
            : n \in 1..MaxRxPeers }

\* StreamStruct.rx_port
rx_port(stream) ==
    IF rxt.is_stream_based THEN stream.rx_ports[1] ELSE TxPort

\* get_address_collection(tx_port, self.rx_port, mac_base_address,
\* stream_offset): the destination addresses and the dmac
get_address_collection(stream) ==
    LET peer == rx_port(stream)
        off == stream.stream_offset
    IN  IF off # NoOffset
        THEN [ dmac |-> <<"gen_macaddress", off.rx_offset>>,
               dst_ipv4_addr |-> <<"ipv4_network", peer, off.rx_offset>>,
               dst_ipv6_addr |-> <<"ipv6_network", peer, off.rx_offset>> ]
        ELSE [ dmac |-> <<"mac_address", peer>>,
               dst_ipv4_addr |-> <<"ipv4_dst_addr", peer>>,
               dst_ipv6_addr |-> <<"ipv6_dst_addr", peer>> ]

RXTableData(dst_addr, dmac) == [destination_ip |-> dst_addr, dmac |-> dmac]

\* ArpRefreshData(source_ip, source_mac, addr_range), addr_range being
\* get_dest_ip_modifier_addr_range of the port the entry is added to
ArpRefreshData(source_ip, source_mac, port) ==
    [source_ip |-> source_ip, source_mac |-> source_mac,
     addr_range |-> <<"dest_ip_modifier_addr_range", port>>]

NoProps == [arp_trunks |-> {}, ndp_trunks |-> {}, address_refresh_data_set |-> {}]

\* add_address_refresh_entry(port_struct, source_ip, source_mac)
add_address_refresh_entry(props, port, source_ip, source_mac) ==
    [props EXCEPT ![port].address_refresh_data_set =
        @ \cup {ArpRefreshData(source_ip, source_mac, port)}]

\* init_rx_tables(arp_refresh_enabled, use_gateway_mac_as_dmac) of a stream
rx_tables_after(props, stream) ==
    LET coll == get_address_collection(stream)
        rx == rx_port(stream)
        is_ipv4 == rxt.protocol_version = "IPV4"
        dst_addr == IF is_ipv4 THEN coll.dst_ipv4_addr ELSE coll.dst_ipv6_addr
        data == RXTableData(dst_addr, coll.dmac)
        trunked == IF is_ipv4
                   THEN [props EXCEPT ![rx].arp_trunks = @ \cup {data}]
                   ELSE [props EXCEPT ![rx].ndp_trunks = @ \cup {data}]
        p1 == IF stream.stream_offset # NoOffset
              THEN add_address_refresh_entry(trunked, rx, dst_addr, coll.dmac)
              ELSE add_address_refresh_entry(props, rx, None, None)
    IN  IF ~rxt.arp_refresh_enabled \/ rxt.protocol_version = "ETHERNET"
        THEN props
        ELSE IF rxt.use_gateway_mac_as_dmac
        THEN add_address_refresh_entry(p1, TxPort, None, None)
        ELSE p1

\* StreamStruct.configure of one more stream of the tx port, at its last
\* step init_rx_tables
init_rx_tables(rx_list, stream_offset) ==
    /\ Len(rxt.streams) < MaxStreams
    /\ LET stream == [rx_ports |-> rx_list, stream_offset |-> stream_offset]
       IN  rxt' = [rxt EXCEPT !.streams = Append(@, stream),
                              !.props = rx_tables_after(rxt.props, stream)]
    /\ UNCHANGED <<rmVars, quitVars, b2bVars, arVars, l3Vars, confVars, mac, tsync,
                   initVars, poll, segVars>>

InitRxTables ==
    \E arp, gw, sb \in BOOLEAN, v \in ProtocolVersions :
        rxt = [ arp_refresh_enabled |-> arp, use_gateway_mac_as_dmac |-> gw,
                is_stream_based |-> sb, protocol_version |-> v,
                streams |-> <<>>,
                props |-> [p \in {TxPort} \cup RxPeers |-> NoProps] ]

NextStreams ==
    \E rx_list \in RxPortLists, stream_offset \in StreamOffsets :
        init_rx_tables(rx_list, stream_offset)

InitStreams ==
    /\ InitRM({<<>>}, {FALSE})
    /\ InitQuit
    /\ IdleB2B
    /\ IdleAR
    /\ IdleL3
    /\ IdleConf
    /\ IdleMac
    /\ tsync = NoSync
    /\ IdleInit
    /\ IdlePoll
    /\ InitRxTables
    /\ IdleSegments

SpecStreams == InitStreams /\ [][NextStreams]_vars

(***************************************************************************)
(* FieldValueRange                                                         *)
(***************************************************************************)
ModifierActionOptions == {"INC", "DEC", "RANDOM"}

Min(a, b) == IF a <= b THEN a ELSE b
Max(a, b) == IF a >= b THEN a ELSE b

\* if current_value > self.stop_value
inc_wraps_mut(f, current_value) == current_value >= f.stop_value
inc_wraps(f, current_value) == current_value > f.stop_value

\* if current_value < self.stop_value
dec_wraps(f, current_value) == current_value < f.stop_value

\* get_current_value with action INC or DEC: the value returned and
\* _current_count afterwards
next_value(f) ==
    LET stepped == IF f.action = "INC"
                   THEN f.start_value + f.current_count * f.step_value
                   ELSE f.start_value - f.current_count * f.step_value
        wraps == IF f.action = "INC" THEN inc_wraps(f, stepped)
                 ELSE dec_wraps(f, stepped)
    IN  IF wraps
        THEN [value |-> f.start_value, current_count |-> 1]
        ELSE [value |-> stepped, current_count |-> f.current_count + 1]

got_value(value, count) ==
    fvr' = [fvr EXCEPT !.current_count = count,
                       !.returned = Append(@, value),
                       !.calls = @ + 1]

\* FieldValueRange.get_current_value; randint(min(boundary), max(boundary))
\* returns any value of the interval
get_current_value ==
    /\ fvr.calls < MaxValueCalls
    /\ IF fvr.action \in {"INC", "DEC"}
       THEN got_value(next_value(fvr).value, next_value(fvr).current_count)
       ELSE \E v \in Min(fvr.start_value, fvr.stop_value)
                      ..Max(fvr.start_value, fvr.stop_value) :
                got_value(v, fvr.current_count + 1)
    /\ UNCHANGED <<rmVars, quitVars, b2bVars, arVars, l3Vars, confVars, mac, tsync,
                   initVars, poll, rxt, profile, hdr>>

\* FieldValueRange.reset
reset ==
    /\ fvr.resets < 1
    /\ fvr.returned # <<>>
    /\ fvr' = [fvr EXCEPT !.current_count = 0, !.returned = <<>>,
                          !.resets = @ + 1]
    /\ UNCHANGED <<rmVars, quitVars, b2bVars, arVars, l3Vars, confVars, mac, tsync,
                   initVars, poll, rxt, profile, hdr>>

InitRange ==
    \E start \in 0..MaxFieldValue, stop \in 0..MaxFieldValue,
       step \in 0..MaxStep, action \in ModifierActionOptions :
        fvr = [NoRange EXCEPT !.start_value = start, !.stop_value = stop,
                              !.step_value = step, !.action = action]

NextRange ==
    \/ get_current_value
    \/ reset

InitValues ==
    /\ InitRM({<<>>}, {FALSE})
    /\ InitQuit
    /\ IdleB2B
    /\ IdleAR
    /\ IdleL3
    /\ IdleConf
    /\ IdleMac
    /\ tsync = NoSync
    /\ IdleInit
    /\ IdlePoll
    /\ IdleRxTables
    /\ InitRange
    /\ profile = NoProfile
    /\ IdleHeader

SpecValues == InitValues /\ [][NextRange]_vars

(***************************************************************************)
(* HeaderSegment and ProtocolSegmentProfileConfig                          *)
(***************************************************************************)
SegmentTypes == {"VLAN", "IP", "RAW"}

\* get_segment_definition(segment_type) and get_field_definition: the fields
\* of a segment type with their byte_offset, bit_offset and bit_length
FieldDefinitions ==
    [ VLAN |-> [ PCP |-> [byte_offset |-> 0, bit_offset |-> 0, bit_length |-> 3],
                 DEI |-> [byte_offset |-> 0, bit_offset |-> 3, bit_length |-> 1] ],
      IP |-> [ Version |-> [byte_offset |-> 0, bit_offset |-> 0,
                            bit_length |-> 4],
               SrcIPAddr |-> [byte_offset |-> 12, bit_offset |-> 96,
                              bit_length |-> 32],
               DestIPAddr |-> [byte_offset |-> 16, bit_offset |-> 128,
                               bit_length |-> 32] ] ]

\* the field names a segment of a type is configured with; a raw segment has
\* no field definitions
FieldNames(type) ==
    IF type = "RAW" THEN {"Raw"} ELSE DOMAIN FieldDefinitions[type]

\* len(segment_value) // 2 of the template of a segment type
SegmentBytes == [VLAN |-> 4, IP |-> 20, RAW |-> 2]

\* the fields a field value range is put on
RangeFields == [VLAN |-> {"PCP", "DEI"}, IP |-> {"Version"}, RAW |-> {"Raw"}]

\* start and stop values around the widths of these fields
RangeValues == {0, 1, 8}

\* HwModifier.offset
ModifierOffsets == {0, 2}

\* modifier.field_name in ("Src IP Addr", "Dest IP Addr")
is_ip_addr(field_name) == field_name \in {"SrcIPAddr", "DestIPAddr"}

\* HwModifier as it is constructed: _byte_offset and _position are 0
HwModifier(field_name, offset) ==
    [field_name |-> field_name, offset |-> offset, byte_offset |-> 0,
     position |-> 0]

\* FieldValueRange as it is constructed
FieldValueRange(field_name, start, stop) ==
    [field_name |-> field_name, start_value |-> start, stop_value |-> stop,
     bit_length |-> 0, bit_offset |-> 0, position |-> 0]

\* the lists of hardware modifiers and of field value ranges a segment of a
\* type is configured with: none or one
ModifierLists(type) ==
    {<<>>} \cup { <<HwModifier(f, o)>> :
                    f \in FieldNames(type), o \in ModifierOffsets }

RangeLists(type) ==
    {<<>>} \cup { <<FieldValueRange(f, a, b)>> :
                    f \in RangeFields[type], a \in RangeValues, b \in RangeValues }

HeaderSegments ==
    UNION { [ segment_type : {type}, hw_modifiers : ModifierLists(type),
              field_value_ranges : RangeLists(type),
              segment_byte_offset : {0} ] : type \in SegmentTypes }

\* what reading or assigning HwModifier.byte_offset ends in: the getter
\* returns self.byte_offset and the setter assigns self.byte_offset, so
\* either calls itself until the interpreter gives up
byte_offset_property == "RecursionError"

\* the validator set_field_value_ranges on the ranges of a segment: the
\* ranges with bit_length and bit_offset set
ranges_defined(seg) ==
    [n \in DOMAIN seg.field_value_ranges |->
        LET r == seg.field_value_ranges[n]
            field_def == FieldDefinitions[seg.segment_type][r.field_name]
        IN  IF seg.segment_type = "RAW" THEN r
            ELSE [r EXCEPT !.bit_length = field_def.bit_length,
                           !.bit_offset = field_def.bit_offset]]

\* if max_v >= can_max
range_exceeds(r) == Max(r.start_value, r.stop_value) >= 2 ^ r.bit_length

\* the validators of one HeaderSegment, set_modifiers and then
\* set_field_value_ranges: the segment afterwards and the exception raised
validate_segment(seg) ==
    LET ranged == [seg EXCEPT !.field_value_ranges = ranges_defined(seg)]
    IN  IF seg.hw_modifiers # <<>> /\ seg.segment_type # "RAW"
        THEN [segment |-> seg, error |-> byte_offset_property]
        ELSE IF /\ seg.segment_type # "RAW"
                /\ \E n \in DOMAIN ranged.field_value_ranges :
                      range_exceeds(ranged.field_value_ranges[n])
        THEN [segment |-> ranged, error |-> "FieldValueRangeExceed"]
        ELSE [segment |-> ranged, error |-> "none"]

\* the next HeaderSegment of the profile is validated
validate_header_segment ==
    /\ profile.status = "building"
    /\ profile.validated < Len(profile.header_segments)
    /\ LET k == profile.validated + 1
           v == validate_segment(profile.header_segments[k])
       IN  profile' = [profile EXCEPT
                         !.header_segments[k] = v.segment,
                         !.validated = k,
                         !.status = IF v.error = "none" THEN @ ELSE "failed",
                         !.error = v.error]
    /\ UNCHANGED <<rmVars, quitVars, b2bVars, arVars, l3Vars, confVars, mac, tsync,
                   initVars, poll, rxt, fvr, hdr>>

\* current_byte_offset when the loop of set_byte_offset reaches segment k
RECURSIVE byte_offset_before(_, _)
byte_offset_before(segments, k) ==
    IF k = 1 THEN 0
    ELSE byte_offset_before(segments, k - 1)
             + SegmentBytes[segments[k - 1].segment_type]

\* the loop body of set_byte_offset on segment k
offset_segment(segments, k) ==
    LET seg == segments[k]
        current_byte_offset == byte_offset_before(segments, k)
        ranges == seg.field_value_ranges
        modifiers == seg.hw_modifiers
    IN  [seg EXCEPT
           !.segment_byte_offset = current_byte_offset,
           !.field_value_ranges =
               [n \in DOMAIN ranges |->
                   [ranges[n] EXCEPT !.position = current_byte_offset * 8
                                                    + ranges[n].bit_offset]],
           !.hw_modifiers =
               [n \in DOMAIN modifiers |->
                   [modifiers[n] EXCEPT !.position =
                       current_byte_offset + modifiers[n].byte_offset
                         + IF is_ip_addr(modifiers[n].field_name)
                           THEN modifiers[n].offset ELSE 0]]]

\* the validator set_byte_offset of the profile: it reads
\* modifier.byte_offset of the first hardware modifier it meets
set_byte_offset ==
    /\ profile.status = "building"
    /\ profile.validated = Len(profile.header_segments)
    /\ LET segments == profile.header_segments
           reads == \E k \in DOMAIN segments : segments[k].hw_modifiers # <<>>
       IN  IF reads
           THEN profile' = [profile EXCEPT !.status = "failed",
                                           !.error = byte_offset_property]
           ELSE profile' = [profile EXCEPT
                              !.status = "built",
                              !.header_segments =
                                  [k \in DOMAIN segments |->
                                      offset_segment(segments, k)]]
    /\ UNCHANGED <<rmVars, quitVars, b2bVars, arVars, l3Vars, confVars, mac, tsync,
                   initVars, poll, rxt, fvr, hdr>>

InitProfile ==
    \E n \in 1..MaxSegments :
        \E segments \in [1..n -> HeaderSegments] :
            profile = [NoProfile EXCEPT !.header_segments = segments,
                                        !.status = "building"]

NextProfile ==
    \/ validate_header_segment
    \/ set_byte_offset

InitBuild ==
    /\ InitRM({<<>>}, {FALSE})
    /\ InitQuit
    /\ IdleB2B
    /\ IdleAR
    /\ IdleL3
    /\ IdleConf
    /\ IdleMac
    /\ tsync = NoSync
    /\ IdleInit
    /\ IdlePoll
    /\ IdleRxTables
    /\ fvr = NoRange
    /\ InitProfile
    /\ IdleHeader

SpecProfile == InitBuild /\ [][NextProfile]_vars

(***************************************************************************)
(* StreamStruct.configure: the protocol segments and the packet header     *)
(***************************************************************************)
\* const.SegmentType members a profile is made of
HeaderSegmentTypes == {"ETHERNET", "IP", "TCP", "UDP"}

\* SegmentType.to_xmp(): the ProtocolOption of the same name
to_xmp(segment_type) == <<"ProtocolOption", segment_type>>

\* profile.header_segment_id_list: to_xmp() of the type of every header
\* segment, as the profile holds it
header_segment_id_list(types) == [k \in DOMAIN types |-> to_xmp(types[k])]

\* the local segment_type of the loop of set_packet_header
local_segment_type(segment_type, can_tcp_checksum) ==
    IF segment_type = "TCP" /\ can_tcp_checksum THEN "TCPCHECK"
    ELSE segment_type

\* the utils.apply call of configure: profile.segment_id_list is evaluated
\* for header.protocol.set before any command is sent
configure_apply ==
    /\ hdr.pc = "configure"
    /\ IF hdr.has_segment_id_list
       THEN hdr' = [hdr EXCEPT
                      !.pc = "set_packet_header",
                      !.protocol = header_segment_id_list(hdr.segment_types)]
       ELSE hdr' = [hdr EXCEPT !.pc = "raised", !.error = "AttributeError"]
    /\ UNCHANGED <<rmVars, quitVars, b2bVars, arVars, l3Vars, confVars, mac, tsync,
                   initVars, poll, rxt, fvr, profile>>

\* set_packet_header: segment_type is assigned and never read; the bytes of
\* every segment are taken from the segment and sent as header data
set_packet_header ==
    /\ hdr.pc = "set_packet_header"
    /\ hdr' = [hdr EXCEPT
                 !.pc = "done",
                 !.programmed =
                     [k \in DOMAIN hdr.segment_types |->
                         local_segment_type(hdr.segment_types[k],
                                            hdr.can_tcp_checksum)],
                 !.packet_header = hdr.segment_types]
    /\ UNCHANGED <<rmVars, quitVars, b2bVars, arVars, l3Vars, confVars, mac, tsync,
                   initVars, poll, rxt, fvr, profile>>

InitHeader ==
    \E n \in 1..MaxHeaderSegments :
        \E types \in [1..n -> HeaderSegmentTypes] :
            \E can, has \in BOOLEAN :
                hdr = [NoHeader EXCEPT !.segment_types = types,
                                       !.can_tcp_checksum = can,
                                       !.has_segment_id_list = has,
                                       !.pc = "configure"]

NextHeader ==
    \/ configure_apply
    \/ set_packet_header

InitConfigure ==
    /\ InitRM({<<>>}, {FALSE})
    /\ InitQuit
    /\ IdleB2B
    /\ IdleAR
    /\ IdleL3
    /\ IdleConf
    /\ IdleMac
    /\ tsync = NoSync
    /\ IdleInit
    /\ IdlePoll
    /\ IdleRxTables
    /\ fvr = NoRange
    /\ profile = NoProfile
    /\ InitHeader

SpecConfigure == InitConfigure /\ [][NextHeader]_vars

Init ==
    /\ InitRM(Layouts, {FALSE})
    /\ InitQuit
    /\ IdleSteps
    /\ IdleB2B
    /\ IdleAR

Next == NextRM

Spec == Init /\ [][Next]_vars

(***************************************************************************)
(* Claims about start_traffic (specification Spec)                         *)
(***************************************************************************)
RECURSIVE Flatten(_)
\* [m, p, m, p, ...] of a list of port struct indexes
Flatten(idx) ==
    IF idx = <<>> THEN <<>>
    ELSE <<port_structs[Head(idx)].port_identity.module_index,
           port_structs[Head(idx)].port_identity.port_index>> \o Flatten(Tail(idx))

\* the (module, port) list of the tx ports that sit on chassis t
OwnList(t) ==
    Flatten(SelectIdx({i \in DOMAIN port_structs :
                          /\ port_structs[i].port_conf.is_tx_port
                          /\ port_structs[i].port_identity.tester_id = t},
                      1, Len(port_structs)))

\* the chassis that host a tx port
TxChassis ==
    {port_structs[i].port_identity.tester_id :
        i \in {j \in DOMAIN port_structs : port_structs[j].port_conf.is_tx_port}}

AllCmds(c) == {<<t, i>> \in Testers \X (1..(2 * MaxPorts + 2)) :
                  i \in DOMAIN cmds[t] /\ cmds[t][i].cmd = c}

\* start_traffic(port_sync = sync) is running or has returned
InStart(sync) ==
    /\ port_sync = sync
    /\ \/ pc \in {"gather", "started"}
       \/ pc = "apply" /\ ret = "started"

\* C1: start_traffic(port_sync=true) over two or more chassis sends each
\* chassis of the mapping exactly one traffic_sync.set, carrying that chassis's
\* own (module, port) list and the local_time read from that chassis plus 2 s;
\* it sends no per-port start and no chassis-level traffic.set, whatever the
\* interleaving of the per-chassis tasks.
C1_SyncStartPerChassis ==
    (InStart(TRUE) /\ Cardinality(DOMAIN mapping) >= 2) =>
        \A t \in Testers :
            /\ CountCmd(cmds[t], "P_TRAFFIC") = 0
            /\ CountCmd(cmds[t], "C_TRAFFIC") = 0
            /\ CountCmd(cmds[t], "C_TRAFFICSYNC") <= 1
            /\ t \notin DOMAIN mapping => cmds[t] = <<>>
            /\ (pc = "started" /\ t \in DOMAIN mapping) =>
                   CountCmd(cmds[t], "C_TRAFFICSYNC") = 1
            /\ \A i \in DOMAIN cmds[t] :
                   cmds[t][i].cmd = "C_TRAFFICSYNC" =>
                       /\ cmds[t][i].onoff = "ON"
                       /\ cmds[t][i].ports = OwnList(t)
                       /\ i > 1
                       /\ cmds[t][i - 1].cmd = "C_TIME"
                       /\ cmds[t][i].when = cmds[t][i - 1].when + 2

\* C1 witness: the mapping {A:[0,0,0,1], B:[1,2]}, both scheduled starts sent,
\* the two chassis clocks read at different times
C1_Witness ==
    /\ pc = "started"
    /\ port_sync
    /\ DOMAIN mapping = {"A", "B"}
    /\ mapping["A"] = <<0, 0, 0, 1>>
    /\ mapping["B"] = <<1, 2>>
    /\ Len(cmds["A"]) = 2
    /\ Len(cmds["B"]) = 2
    /\ cmds["A"][2].when = 2
    /\ cmds["B"][2].when = 3
    /\ local_time["B"] = 2

\* the end-to-end scenario: chassis A hosts only the tx port p0, chassis B
\* only the rx port p1
EndToEnd ==
    all_confs =
        << [port_identity |-> [tester_id |-> "A", module_index |-> 0, port_index |-> 0],
            is_tx_port |-> TRUE, is_rx_port |-> FALSE],
           [port_identity |-> [tester_id |-> "B", module_index |-> 1, port_index |-> 2],
            is_tx_port |-> FALSE, is_rx_port |-> TRUE] >>

\* C2 as stated: in the end-to-end scenario init_resource followed by
\* start_traffic(port_sync=true) issues two traffic_sync calls, one per chassis.
C2_TwoSyncCalls ==
    (EndToEnd /\ pc = "started" /\ port_sync) =>
        /\ Cardinality(AllCmds("C_TRAFFICSYNC")) = 2
        /\ \A t \in Testers : CountCmd(cmds[t], "C_TRAFFICSYNC") = 1

\* C2 amended: in the end-to-end scenario only chassis A hosts a tx port, so
\* the mapping holds A alone and start_traffic(port_sync=true) issues one
\* chassis-level traffic.set(ON, [0,0]) on A and no traffic_sync call.
C2_OneChassisStart ==
    (EndToEnd /\ pc = "started" /\ port_sync) =>
        /\ DOMAIN mapping = {"A"}
        /\ cmds["A"] = <<Cmd("C_TRAFFIC", "ON", -1, <<0, 0>>, 0)>>
        /\ cmds["B"] = <<>>
        /\ AllCmds("C_TRAFFICSYNC") = {}

\* C2 witness: the scenario has run init_resource and start_traffic(true)
C2_Witness ==
    /\ EndToEnd
    /\ pc = "started"
    /\ port_sync
    /\ Len(port_structs) = 2
    /\ Len(cmds["A"]) = 1

\* C3: start_traffic(port_sync=true) with a mapping of exactly one chassis
\* issues one chassis-level traffic.set(ON, list) on that chassis, list being
\* the flattened (module, port) list, and no traffic_sync or per-port start.
C3_SingleChassisStart ==
    (InStart(TRUE) /\ Cardinality(DOMAIN mapping) = 1) =>
        /\ pc = "started"
        /\ \A t \in Testers :
              IF t \in DOMAIN mapping
              THEN /\ t \in TxChassis
                   /\ cmds[t] = <<Cmd("C_TRAFFIC", "ON", -1, OwnList(t), 0)>>
              ELSE cmds[t] = <<>>

\* C3 witness: mapping = {A:[0,0]} next to an rx-only port on chassis B
C3_Witness ==
    /\ pc = "started"
    /\ port_sync
    /\ DOMAIN mapping = {"A"}
    /\ mapping["A"] = <<0, 0>>
    /\ cmds["A"] = <<Cmd("C_TRAFFIC", "ON", -1, <<0, 0>>, 0)>>
    /\ Len(port_structs) = 3

\* C4: start_traffic(port_sync=false) sends one per-port START to every tx
\* port and to no rx-only port, and no chassis-level traffic.set, clock read
\* or traffic_sync, however many chassis the mapping holds.
C4_PerPortStart ==
    InStart(FALSE) =>
        /\ \A t \in Testers : \A i \in DOMAIN cmds[t] :
              /\ cmds[t][i].cmd = "P_TRAFFIC"
              /\ cmds[t][i].onoff = "START"
              /\ cmds[t][i].ps \in DOMAIN port_structs
              /\ port_structs[cmds[t][i].ps].port_conf.is_tx_port
              /\ port_structs[cmds[t][i].ps].port_identity.tester_id = t
        /\ \A k \in DOMAIN port_structs :
              LET sent == {<<t, i>> \in AllCmds("P_TRAFFIC") : cmds[t][i].ps = k}
              IN  /\ Cardinality(sent) <= 1
                  /\ (pc = "started" /\ port_structs[k].port_conf.is_tx_port) =>
                         Cardinality(sent) = 1

\* C4 witness: tx ports on two chassis and an rx-only port, all starts sent
C4_Witness ==
    /\ pc = "started"
    /\ ~port_sync
    /\ Cardinality(DOMAIN mapping) = 2
    /\ \E k \in DOMAIN port_structs : ~port_structs[k].port_conf.is_tx_port
    /\ Cardinality(AllCmds("P_TRAFFIC")) = 2

(***************************************************************************)
(* Claims about should_quit (specification SpecQuit)                       *)
(***************************************************************************)
\* C5: should_quit(start_time, actual_duration) returns true iff every tx port
\* has traffic stopped, or stop_on_los is set and some port (tx or rx) is out
\* of sync, or the time elapsed since start_time is at least
\* actual_duration + 5 s; with stop_on_los off the sync status never changes
\* the result and no warning is sent.
C5_ShouldQuit ==
    /\ fresh =>
          /\ quit_ret =
                \/ \A i \in DOMAIN port_structs :
                      port_structs[i].port_conf.is_tx_port =>
                          ~port_structs[i].traffic_status
                \/ stop_on_los /\ \E i \in DOMAIN port_structs :
                                     ~port_structs[i].sync_status
                \/ now - quit_args.start_time >= quit_args.actual_duration + 5
          /\ ~stop_on_los => ~quit_warned
    /\ ~stop_on_los => xoa_out = 0

\* C5 witness: stop_on_los off, an rx port out of sync, a tx port sending and
\* the guard time not reached: should_quit has just returned false
C5_Witness ==
    /\ fresh
    /\ ~stop_on_los
    /\ ~quit_ret
    /\ \E i \in DOMAIN port_structs : ~port_structs[i].sync_status
    /\ now - quit_args.start_time = quit_args.actual_duration + 4

\* C6 as stated: with stop_on_los set, should_quit returns true while a port
\* is out of sync and the loss-of-signal warning goes to the outer pipe once
\* per true-to-false transition of sync, however often should_quit is called.
C6_WarnOncePerTransition ==
    stop_on_los =>
        /\ los_warned <= 1
        /\ (fresh /\ \E i \in DOMAIN port_structs : ~port_structs[i].sync_status) =>
               (quit_ret /\ los_warned = 1)

(***************************************************************************)
(* Claims about the back-to-back controller (specification SpecB2B)        *)
(***************************************************************************)
\* actual_duration = 2 s, rate = 100 %, burst_resolution = 1, no loss for a
\* burst of at most 150 frames
Scenario150 ==
    /\ b2b_conf.actual_duration = 2
    /\ b2b_conf.rate = 100
    /\ b2b_conf.burst_resolution = 1 * Scale
    /\ b2b_conf.thr = 150 * Scale

\* C7 as stated: with actual_duration = 2 s, rate = 100 %, burst_resolution = 1
\* and loss exactly above 150 frames, the controller reaches port_test_passed
\* with current = 150 within ceil(log2(200)) update_boundaries iterations.
C7_ConvergesTo150 ==
    \A e \in DOMAIN b2b :
        (Scenario150 /\ b2b_hist[e].consistent) =>
            /\ b2b[e].port_test_passed =>
                  /\ b2b[e].current = 150 * Scale
                  /\ b2b_hist[e].passed_at <= 8
            /\ b2b_hist[e].finals >= 8 => b2b_hist[e].passed_at >= 1

\* C7 amended: with actual_duration = 2 s and rate = 100 % the initial right
\* bound is 2 * 100 / 100 = 2 frames, which the device takes without loss, so
\* the controller reaches port_test_passed with current = 2 on the first
\* update_boundaries call fed a final statistic (within ceil(log2(200)) calls).
C7_ConvergesToInitialBound ==
    \A e \in DOMAIN b2b :
        (Scenario150 /\ b2b_hist[e].consistent /\ b2b_hist[e].finals >= 1) =>
            /\ b2b_hist[e].passed_at = 1
            /\ b2b_hist[e].passed_at <= 8
            /\ b2b[e].current = 2 * Scale

\* C7 witness: the scenario's controller has just passed on its first final
\* statistic
C7_Witness ==
    /\ Scenario150
    /\ b2b # <<>>
    /\ b2b_hist[1].consistent
    /\ b2b_hist[1].finals = 1
    /\ b2b[1].port_test_passed
    /\ b2b[1].left_bound = 2 * Scale

\* C8: for a port that loses no frame exactly for bursts up to a threshold T
\* (0 <= T <= initial right bound), when the controller declares
\* port_test_passed the value in current is lossless (current <= T) and is the
\* largest such burst up to burst_resolution (T - current <= burst_resolution).
C8_LargestLosslessBurst ==
    \A e \in DOMAIN b2b :
        ( /\ b2b_hist[e].consistent
          /\ b2b_conf.thr <= initial_bound(b2b_conf.actual_duration, b2b_conf.rate)
          /\ b2b[e].port_test_passed ) =>
            /\ b2b[e].current <= b2b_conf.thr
            /\ b2b_conf.thr - b2b[e].current <= b2b_conf.burst_resolution

\* C9: the initial boundaries for a list of k tx ports are k controllers, one
\* bound to each port, and update_boundaries on one controller changes no
\* field of another.
C9_OneControllerPerPort ==
    b2b # <<>> =>
        /\ Len(b2b) = b2b_conf.ports
        /\ \A i \in DOMAIN b2b : b2b[i].port = i

\* every halving of the search is exact in the fixed-point representation
B2BExact ==
    \A e \in DOMAIN b2b :
        b2b_hist[e].finals < MaxUpdates =>
            /\ (b2b[e].current + b2b[e].right_bound) % 2 = 0
            /\ (b2b[e].left_bound + b2b[e].current) % 2 = 0

(***************************************************************************)
(* Claims about the address refresh handler (specification SpecRefresh)    *)
(***************************************************************************)
\* C10: for N > 0 active tokens the handler computes
\* interval_ms = floor(refresh_period_ms / N); if that is below
\* MIN_REFRESH_TIMER_INTERNAL it sets refresh_burst_size =
\* ceil(MIN_REFRESH_TIMER_INTERNAL / interval_ms) and interval =
\* MIN_REFRESH_TIMER_INTERNAL, otherwise refresh_burst_size = 1 (and the
\* interval stays interval_ms); period 1000 with 5 tokens gives interval 200
\* and burst 1, period 50 with 5 tokens gives interval 100 and burst 10.
C10_RefreshInterval ==
    (arh.configured /\ Len(arh.tokens) > 0) =>
        LET interval_ms == arh.refresh_period \div Len(arh.tokens)
        IN  /\ arh.error = "none"
            /\ IF interval_ms < MIN_REFRESH_TIMER_INTERNAL
               THEN /\ arh.interval = MIN_REFRESH_TIMER_INTERNAL
                    /\ (arh.refresh_burst_size - 1) * interval_ms
                          < MIN_REFRESH_TIMER_INTERNAL
                    /\ MIN_REFRESH_TIMER_INTERNAL
                          <= arh.refresh_burst_size * interval_ms
               ELSE /\ arh.refresh_burst_size = 1
                    /\ arh.interval = interval_ms
            /\ (arh.refresh_period = 1000 /\ Len(arh.tokens) = 5) =>
                   (arh.interval = 200 /\ arh.refresh_burst_size = 1)
            /\ (arh.refresh_period = 50 /\ Len(arh.tokens) = 5) =>
                   (arh.interval = 100 /\ arh.refresh_burst_size = 10)

\* the computation of C10 wherever floor(refresh_period / N) is not zero
RefreshIntervalNonZero ==
    (arh.configured /\ Len(arh.tokens) > 0
        /\ arh.refresh_period \div Len(arh.tokens) > 0) => C10_RefreshInterval

(***************************************************************************)
(* get_batch                                                               *)
(***************************************************************************)
\* a get_batch call on a non-empty active token list has just returned
BatchReturned ==
    /\ ar_hist.called
    /\ arh.tokens # <<>>

\* C11: every get_batch call on a handler with a non-empty active token list
\* returns exactly refresh_burst_size tokens and advances the index by
\* refresh_burst_size around the circle of the token list.
C11_ExactBurstWithWrap ==
    BatchReturned =>
        /\ Len(ar_batch) = arh.refresh_burst_size
        /\ arh.index % Len(arh.tokens)
              = (ar_hist.from + arh.refresh_burst_size) % Len(arh.tokens)

\* every active token has been returned at least once since the last
\* set_current_state; ar_hist.calls is the number of calls that took
Covered ==
    /\ BatchReturned
    /\ ar_hist.seen = Range(arh.tokens)

\* the interval was not raised to the minimum
Unclamped ==
    arh.refresh_period \div Len(arh.tokens) >= MIN_REFRESH_TIMER_INTERNAL

\* C12 as stated: for every N > 0 active tokens and every refresh_period, the
\* consecutive get_batch calls that return all N tokens once, times the
\* scheduling interval, do not exceed refresh_period.
C12_CoverWithinPeriod ==
    Covered => ar_hist.calls * arh.interval <= arh.refresh_period

\* C12: when floor(refresh_period / N) is at least the minimum interval, N
\* consecutive get_batch calls return all N tokens once and N times the
\* interval does not exceed refresh_period; when the interval is raised to the
\* minimum, the calls times the interval stay below refresh_period plus two
\* minimum intervals.
C12_CoverWithinPeriodUnclamped ==
    Covered =>
        /\ Unclamped =>
              /\ ar_hist.calls = Len(arh.tokens)
              /\ ar_hist.calls * arh.interval <= arh.refresh_period
        /\ ar_hist.calls * arh.interval
              < arh.refresh_period + 2 * MIN_REFRESH_TIMER_INTERNAL

C12_Witness ==
    /\ Covered
    /\ Unclamped
    /\ Len(arh.tokens) >= 2
    /\ ar_hist.calls * arh.interval < arh.refresh_period

(***************************************************************************)
(* set_current_state                                                       *)
(***************************************************************************)
\* the ports that are rx and not tx
RxOnlyPorts ==
    {i \in DOMAIN ar_ports : ar_ports[i].is_rx_port /\ ~ar_ports[i].is_tx_port}

\* C13: after set_current_state(L3_LEARNING) the active token list is every
\* address-refresh token; after set_current_state(RUNNING_TEST) it is exactly
\* the tokens of the ports that are rx and not tx, in their original order;
\* get_batch never returns a token outside the active list of the current
\* state.
C13_ActiveTokens ==
    /\ arh.configured /\ arh.state = "L3_LEARNING" =>
          arh.tokens = [i \in DOMAIN arh.address_refresh_tokens |->
                           arh.address_refresh_tokens[i].token]
    /\ arh.configured /\ arh.state = "RUNNING_TEST" =>
          arh.tokens = SelectIdx(RxOnlyPorts, 1, Len(ar_ports))
    /\ ar_hist.called => Range(ar_batch) \subseteq Range(arh.tokens)

C13_Witness ==
    /\ arh.configured
    /\ arh.state = "RUNNING_TEST"
    /\ ar_hist.called
    /\ Len(ar_batch) >= 2
    /\ Len(arh.tokens) < Len(arh.address_refresh_tokens)

(***************************************************************************)
(* The refresh schedule and the L3 learning preamble                       *)
(***************************************************************************)
\* the refresh schedule of the operation in progress is running
ScheduleActive == l3.pc \in {"schedule", "sleep"}

\* the refresh schedule of the operation in progress has run and stopped
ScheduleOver == l3.pc \in {"wait", "returned"} /\ l3.fires > 0

\* C14: while a refresh schedule is active one get_batch batch is sent per
\* interval, for as long as some tx port reports traffic on; the schedule
\* stops after the first batch sent when no tx port reports traffic on;
\* with no handler or an empty active token list schedule_arp_refresh sends
\* nothing and returns at once.
C14_RefreshSchedule ==
    /\ l3.pc = "schedule" => l3.fires = l3.sleeps
    /\ l3.pc = "sleep" => l3.fires = l3.sleeps + 1 /\ l3.last_running
    /\ ScheduleActive =>
          /\ l3.idle_fires = 0
          /\ l3_conf.handler
          /\ arh.tokens # <<>>
    /\ ScheduleOver =>
          /\ l3.idle_fires = 1
          /\ ~l3.last_running
          /\ l3.fires = l3.sleeps + 1
    /\ /\ l3.op = "refresh"
       /\ ~l3_conf.handler \/ (arh.configured /\ arh.tokens = <<>>)
       => /\ l3.pc = "returned"
          /\ l3.fires = 0
          /\ l3.log = <<>>

C14_Witness ==
    /\ l3.op = "refresh"
    /\ l3.pc = "returned"
    /\ l3.fires >= 2
    /\ arh.state = "RUNNING_TEST"

\* the place of a command in the order of the preamble
Phase(e) ==
    CASE e.cmd = "set_rate" -> 1
      [] e.cmd = "setup_source_port_rates" -> 2
      [] e.cmd = "set_tx_time_limit" /\ e.arg # 0 -> 3
      [] e.cmd = "start_traffic" -> 4
      [] e.cmd = "send" -> 5
      [] e.cmd = "batch" -> 6
      [] e.cmd = "query_traffic_status" -> 7
      [] OTHER -> 8

\* a traffic start is on its way to a chassis or has reached it
StartIssued ==
    \/ \E c \in pending : c.onoff = "START"
    \/ \E t \in Testers : \E k \in DOMAIN cmds[t] : cmds[t][k].onoff = "START"

\* C15: with a handler the L3 learning preamble issues, in this order: set
\* rate to learning_rate_pct, source-port rates, tx_time_limit =
\* learning_duration_second * 1000, traffic start, every refresh token once,
\* the batches of the refresh schedule, the status polls of the wait, and,
\* only once no tx port reports traffic on, tx_time_limit = 0; traffic is
\* never started before the time limit is programmed, on normal return the
\* time limit is cleared, and with no handler no command is issued.
C15_PreambleOrder ==
    l3.op = "preamble" =>
        /\ \A i \in DOMAIN l3.log :
              /\ i <= 5 => Phase(l3.log[i]) = i
              /\ i > 5 =>
                    /\ Phase(l3.log[i]) \in 6..8
                    /\ Phase(l3.log[i - 1]) <= Phase(l3.log[i])
                    /\ Phase(l3.log[i - 1]) # 8
        /\ Len(l3.log) >= 1 => l3.log[1].arg = l3_conf.learning_rate_pct
        /\ Len(l3.log) >= 3 =>
              l3.log[3].arg = l3_conf.learning_duration_second * 1000
        /\ Len(l3.log) >= 5 =>
              l3.log[5].arg = [i \in DOMAIN arh.address_refresh_tokens |->
                                 arh.address_refresh_tokens[i].token]
        /\ StartIssued => Len(l3.log) >= 4
        /\ l3.pc = "wait" => Len(l3.log) >= 5
        /\ l3.pc = "returned" /\ l3_conf.handler =>
              /\ Phase(l3.log[Len(l3.log)]) = 8
              /\ ~l3.clear_running
        /\ ~l3_conf.handler =>
              /\ l3.pc = "returned"
              /\ l3.log = <<>>
              /\ ~StartIssued

C15_Witness ==
    /\ l3.op = "preamble"
    /\ l3.pc = "returned"
    /\ l3.fires >= 2
    /\ l3.queries >= 1

(***************************************************************************)
(* MAC learning                                                            *)
(***************************************************************************)
\* C16: mac_learning on an rx port whose max_xmit_one_packet_length is
\* smaller than the learning frame length raises PacketLengthExceed, and that
\* port transmits no learning frame.
C16_PacketLengthExceed ==
    \A i \in mac.visited :
        /\ port_structs[i].port_conf.is_rx_port
        /\ max_xmit[i] < learning_frame_length
        => /\ pc = "raised"
           /\ mac.error = "PacketLengthExceed"
           /\ mac.k = i
           /\ mac.sent[i] = 0

C16_Witness ==
    /\ pc = "raised"
    /\ mac.k = 2
    /\ max_xmit[2] = 64
    /\ mac.sent[1] > 0

\* C17: add_mac_learning_steps(required_mode) transmits learning frames only
\* when required_mode equals the configured mac_learning_mode; then every rx
\* port transmits exactly mac_learning_frame_count frames and every tx-only
\* port none.  With mode never no frame is ever sent, and during
\* init_resource frames are sent only when the mode is once.
C17_MacLearningMode ==
    mac.called =>
        /\ \A i \in DOMAIN mac.sent :
              /\ mac.sent[i] <= test_conf.mac_learning_frame_count
              /\ mac.sent[i] > 0 =>
                    /\ mac.require_mode = test_conf.mac_learning_mode
                    /\ port_structs[i].port_conf.is_rx_port
                    /\ test_conf.mac_learning_mode # "never"
                    /\ mac.require_mode = "once" =>
                          test_conf.mac_learning_mode = "once"
        /\ pc = "ready" /\ mac.require_mode = test_conf.mac_learning_mode =>
              \A i \in DOMAIN mac.sent :
                  mac.sent[i] = IF port_structs[i].port_conf.is_rx_port
                                THEN test_conf.mac_learning_frame_count
                                ELSE 0

C17_Witness ==
    /\ pc = "ready"
    /\ mac.called
    /\ mac.require_mode = "every_trial"
    /\ \E i, j \in DOMAIN mac.sent :
          /\ mac.sent[i] = 2
          /\ ~port_structs[j].port_conf.is_rx_port
          /\ mac.sent[j] = 0

(***************************************************************************)
(* The toggle-sync preamble                                                *)
(***************************************************************************)
\* the sync commands of value on_off that reached a chassis or are on their way
SyncCmds(on_off) ==
    {c \in pending : c.cmd = "set_toggle_port_sync" /\ c.onoff = on_off}
    \cup UNION { {cmds[t][k] : k \in {h \in DOMAIN cmds[t] :
                                 /\ cmds[t][h].cmd = "set_toggle_port_sync"
                                 /\ cmds[t][h].onoff = on_off}}
                 : t \in Testers }

\* sync OFF has reached the chassis of every port
AllOff ==
    \A i \in DOMAIN port_structs :
        \E k \in DOMAIN cmds[port_structs[i].port_identity.tester_id] :
            cmds[port_structs[i].port_identity.tester_id][k]
                = set_toggle_port_sync(i, "OFF")

\* the preamble has returned without an error
SyncReturned == tsync.called /\ tsync.returned_at >= 0

\* what C18 says of the two phases, of the delay before the return and of a
\* test that does not ask for the toggling
SyncPhases ==
    /\ test_conf.toggle_port_sync =>
          /\ SyncCmds("ON") # {} => AllOff
          /\ tsync.on_at >= 0 =>
                tsync.on_at - tsync.off_done_at
                    >= test_conf.sync_off_duration_second
          /\ SyncReturned =>
                tsync.returned_at - tsync.wait_over_at
                    >= test_conf.delay_after_sync_on_second
    /\ ~test_conf.toggle_port_sync /\ tsync.called =>
          /\ SyncCmds("OFF") \cup SyncCmds("ON") = {}
          /\ tsync.returned_at = tsync.entered_at

\* C18 as stated: sync OFF on every port before sync ON on any port,
\* sync_off_duration between the two phases, and a successful return only when
\* every port's sync_status is true at the moment of return, after sleeping
\* delay_after_sync_on; without toggle_port_sync no sync command and no wait.
C18_AllSyncedAtReturn ==
    /\ SyncPhases
    /\ test_conf.toggle_port_sync /\ SyncReturned => tsync.all_synced_at_return

\* C18: as above, but a successful return only after every port's sync_status
\* was read true once after sync was switched on, the ports being polled one
\* after the other in list order, and then sleeping delay_after_sync_on.
C18_EachPortReadSynced ==
    /\ SyncPhases
    /\ test_conf.toggle_port_sync /\ SyncReturned =>
          /\ tsync.passed_synced
          /\ tsync.k = Len(port_structs) + 1
          /\ \A i \in DOMAIN port_structs : tsync.reached[i] = "before"

C18_Witness ==
    /\ test_conf.toggle_port_sync
    /\ SyncReturned
    /\ ~tsync.all_synced_at_return
    /\ Len(port_structs) = 2
    /\ tsync.wait_over_at > tsync.start_time

\* C19: the wait fails with the sync timeout if and only if some port has not
\* reached sync_status true within 30 s of sync being switched on; a port that
\* becomes synced before the 30 s bound never causes the failure, and the
\* wait does not last unboundedly.
C19_TimeoutIffNotSynced ==
    /\ tsync.error = "TimeoutError" =>
          /\ \E i \in DOMAIN port_structs : tsync.reached[i] # "before"
          /\ tsync.reached[tsync.timeout_port] # "before"
          /\ now - tsync.start_time
                <= sync_timeout + DELAY_CHECK_SYNC + MaxJitter
    /\ tsync.wait_over_at >= 0 =>
          \A i \in DOMAIN port_structs : tsync.reached[i] = "before"
    /\ pc = "sync_sleeping" => now - tsync.start_time <= sync_timeout

(***************************************************************************)
(* Claims about resolve_port_relations (specification SpecRelations)       *)
(***************************************************************************)
\* resolve_port_relations has returned
Resolved == pc \notin {"new", "collect_control_ports", "resolve_port_relations"}

\* C20: after resolve_port_relations the n ports have pairwise distinct
\* test_port_index values that are exactly 0..n-1, in configuration order
\* for a mesh topology and otherwise the east ports first, then the west
\* ports, whatever port groups (east, west, undefined) the ports have.
C20_DenseTestPortIndex ==
    Resolved =>
        /\ \A i, j \in DOMAIN port_structs :
              i # j => port_structs[i].test_port_index
                           # port_structs[j].test_port_index
        /\ {port_structs[i].test_port_index : i \in DOMAIN port_structs}
              = 0..(Len(port_structs) - 1)
        /\ test_conf.is_mesh_topology =>
              \A i \in DOMAIN port_structs :
                  port_structs[i].test_port_index = i - 1
        /\ ~test_conf.is_mesh_topology =>
              \A i, j \in DOMAIN port_structs :
                  \/ /\ test_conf.port_group[i] = "east"
                     /\ test_conf.port_group[j] = "west"
                  \/ /\ test_conf.port_group[i] = test_conf.port_group[j]
                     /\ test_conf.port_group[i] \in {"east", "west"}
                     /\ i < j
                  => port_structs[i].test_port_index
                         < port_structs[j].test_port_index
(***************************************************************************)
(* Claims about init_resource (specifications SpecReinit and SpecBoot)     *)
(***************************************************************************)
\* the (module, port) pairs build_map enters for chassis t in one run
OwnPairs(t) ==
    {i \in DOMAIN all_confs : /\ all_confs[i].is_tx_port
                              /\ all_confs[i].port_identity.tester_id = t}

\* C21: init_resource is idempotent: after a second run on the same
\* ResourceManager port_structs holds one PortStruct per configured port and
\* mapping holds each tx port's (module, port) pair once under its chassis,
\* as after the first run.
C21_InitResourceIdempotent ==
    pc = "ready" /\ init_run.calls >= 1 =>
        /\ Len(port_structs) = Len(all_confs)
        /\ \A i \in DOMAIN port_structs : port_structs[i].port_conf = all_confs[i]
        /\ \A t \in DOMAIN mapping :
              Len(mapping[t]) = 2 * Cardinality(OwnPairs(t))

\* init_resource has failed on the configuration
ConfigRejected ==
    init_run.error \in {"WrongModuleTypeError", "ConfigurationError"}

\* C22: when a configured port sits on a Chimera module or check_config
\* rejects the configuration, init_resource fails and no later step runs: no
\* traffic or sync command is issued or waiting to be sent, the sync toggle,
\* the stream setup and the MAC learning are never entered; a Chimera
\* rejection happens before prepare() of any port struct is started.
C22_ConfigErrorsFatal ==
    /\ testbed.chimera # {} /\ pc \notin {"new", "collect_control_ports"} =>
          init_run.error = "WrongModuleTypeError"
    /\ ~testbed.config_valid
          /\ pc \notin {"new", "collect_control_ports", "resolve_port_relations"} =>
          ConfigRejected
    /\ ConfigRejected =>
          /\ pc = "raised"
          /\ cmds = EmptyLog
          /\ pending = {}
          /\ ~tsync.called
          /\ ~mac.called
    /\ init_run.error = "WrongModuleTypeError" => init_run.prepared = {}

\* a port on a Chimera module was met after a port struct had been
\* constructed, in a test that asks for the sync toggle and MAC learning
C22_Witness ==
    /\ init_run.error = "WrongModuleTypeError"
    /\ Len(port_structs) >= 1
    /\ test_conf.toggle_port_sync
    /\ test_conf.mac_learning_mode = "once"
(***************************************************************************)
(* Claims about cancellation (specification SpecCancel)                    *)
(***************************************************************************)
\* the preamble has programmed a tx_time_limit or started traffic
L3Programmed ==
    \E n \in DOMAIN l3.log :
        \/ l3.log[n].cmd = "set_tx_time_limit" /\ l3.log[n].arg # 0
        \/ l3.log[n].cmd = "start_traffic"

\* C23: when the root task is cancelled after the L3 learning preamble has
\* programmed a tx_time_limit or started traffic, then before the
\* cancellation leaves the preamble a stop-traffic command has been issued
\* to every port and the tx_time_limit has been cleared to 0.
C23_CancelCleansUp ==
    l3.pc = "cancelled" /\ L3Programmed =>
        /\ \A i \in DOMAIN port_structs :
              \E t \in Testers : \E n \in DOMAIN cmds[t] :
                  cmds[t][n] = set_traffic(i, "STOP")
        /\ \E n \in DOMAIN l3.log :
              l3.log[n] = Step("set_tx_time_limit", 0)
RefreshWanted == rxt.arp_refresh_enabled /\ rxt.protocol_version # "ETHERNET"

\* the (dst_ip, dst_mac) pair of a stream received on port r
DstPair(stream, r) ==
    LET off == stream.stream_offset
        v4 == rxt.protocol_version = "IPV4"
    IN  IF off # NoOffset
        THEN RXTableData(<<IF v4 THEN "ipv4_network" ELSE "ipv6_network",
                           r, off.rx_offset>>,
                         <<"gen_macaddress", off.rx_offset>>)
        ELSE RXTableData(<<IF v4 THEN "ipv4_dst_addr" ELSE "ipv6_dst_addr", r>>,
                         <<"mac_address", r>>)

\* C25: for every stream configured with arp refresh enabled and an L3 tx
\* port, whatever the flow creation type and with or without a stream
\* offset, the (dst_ip, dst_mac) pair is in arp_trunks (IPv4) or ndp_trunks
\* (IPv6) of the stream's rx port and that rx port holds an ArpRefreshData;
\* with use_gateway_mac_as_dmac the tx port holds an empty ArpRefreshData;
\* with arp refresh disabled or an L2 tx port no port holds a trunk or a
\* refresh entry.
C25_RxTables ==
    /\ RefreshWanted =>
          \A n \in DOMAIN rxt.streams :
              LET stream == rxt.streams[n]
                  r == stream.rx_ports[1]
              IN  /\ IF rxt.protocol_version = "IPV4"
                     THEN DstPair(stream, r) \in rxt.props[r].arp_trunks
                     ELSE DstPair(stream, r) \in rxt.props[r].ndp_trunks
                  /\ rxt.props[r].address_refresh_data_set # {}
                  /\ rxt.use_gateway_mac_as_dmac =>
                        ArpRefreshData(None, None, TxPort)
                            \in rxt.props[TxPort].address_refresh_data_set
    /\ ~RefreshWanted =>
          \A p \in DOMAIN rxt.props : rxt.props[p] = NoProps

(***************************************************************************)
(* Claims about FieldValueRange (specification SpecValues)                 *)
(***************************************************************************)
\* how many values an INC or DEC range runs through before it wraps
Period(f) ==
    IF f.step_value = 0 THEN 1
    ELSE (Max(f.start_value, f.stop_value) - Min(f.start_value, f.stop_value))
             \div f.step_value + 1

\* the k-th value a range returns after it was built or reset
ValueAt(f, k) ==
    IF f.action = "INC"
    THEN f.start_value + ((k - 1) % Period(f)) * f.step_value
    ELSE f.start_value - ((k - 1) % Period(f)) * f.step_value

\* C26: successive get_current_value calls on an INC range with start <= stop
\* return start, start + step, ... up to the largest value not above stop and
\* then wrap to start with the same period; on a DEC range with
\* start >= stop they return start, start - step, ... down to the smallest
\* value not below stop and wrap likewise; every returned value lies within
\* [min(start, stop), max(start, stop)]; after reset() the next value is start.
C26_RangeCycles ==
    \/ fvr.action = "INC" /\ fvr.start_value <= fvr.stop_value
    \/ fvr.action = "DEC" /\ fvr.start_value >= fvr.stop_value
    => \A k \in DOMAIN fvr.returned :
          /\ fvr.returned[k] = ValueAt(fvr, k)
          /\ fvr.returned[k] >= Min(fvr.start_value, fvr.stop_value)
          /\ fvr.returned[k] <= Max(fvr.start_value, fvr.stop_value)

\* an INC range of three values has wrapped after a reset in mid-cycle
C26_Witness ==
    /\ fvr.action = "INC"
    /\ fvr.start_value = 1 /\ fvr.stop_value = 3 /\ fvr.step_value = 1
    /\ fvr.resets = 1
    /\ fvr.returned = <<1, 2, 3, 1>>

(***************************************************************************)
(* Claims about profile building (specification SpecProfile)               *)
(***************************************************************************)
\* the build of the profile has ended
Ended == profile.status \in {"built", "failed"}

\* the width of the field of range r of segment seg: the definition's
\* bit_length, and for a raw segment the bit_length the range holds
field_width(seg, r) ==
    IF seg.segment_type = "RAW" THEN r.bit_length
    ELSE FieldDefinitions[seg.segment_type][r.field_name].bit_length

\* some field value range of the profile does not fit its field
SomeRangeExceeds ==
    \E k \in DOMAIN profile.header_segments :
        LET seg == profile.header_segments[k]
        IN  \E n \in DOMAIN seg.field_value_ranges :
                LET r == seg.field_value_ranges[n]
                IN  Max(r.start_value, r.stop_value) >= 2 ^ field_width(seg, r)

SomeModifier ==
    \E k \in DOMAIN profile.header_segments :
        profile.header_segments[k].hw_modifiers # <<>>

\* C27: building a profile with a field value range whose max(start, stop)
\* is at least 2^bit_length of its field fails with FieldValueRangeExceed, in
\* every segment type; a profile that is built holds only field value
\* ranges with max(start, stop) < 2^bit_length.
C27_RangeFitsField ==
    /\ Ended /\ SomeRangeExceeds =>
          profile.status = "failed" /\ profile.error = "FieldValueRangeExceed"
    /\ profile.status = "built" =>
          \A k \in DOMAIN profile.header_segments :
              \A n \in DOMAIN profile.header_segments[k].field_value_ranges :
                  ~range_exceeds(profile.header_segments[k].field_value_ranges[n])

\* the same for profiles without hardware modifiers: the ranges of raw
\* segments alone
C27_WithoutModifiers == SomeModifier \/ C27_RangeFitsField

\* C28: in a materialized profile each segment's segment_byte_offset is the
\* sum of the byte lengths of the segments before it, each hardware
\* modifier's position is that offset plus its field's byte_offset, plus the
\* modifier's own offset for "Src IP Addr" and "Dest IP Addr", and each field
\* value range's position is eight times that offset plus its field's
\* bit_offset; the materialization of a profile with hardware modifiers
\* finishes.
C28_Materialized ==
    /\ profile.status = "built" =>
          \A k \in DOMAIN profile.header_segments :
              LET seg == profile.header_segments[k]
                  before == byte_offset_before(profile.header_segments, k)
              IN  /\ seg.segment_byte_offset = before
                  /\ \A n \in DOMAIN seg.field_value_ranges :
                        seg.field_value_ranges[n].position
                            = before * 8 + seg.field_value_ranges[n].bit_offset
                  /\ \A n \in DOMAIN seg.hw_modifiers :
                        LET m == seg.hw_modifiers[n]
                            field_offset ==
                                IF seg.segment_type = "RAW" THEN 0
                                ELSE FieldDefinitions[seg.segment_type]
                                         [m.field_name].byte_offset
                        IN  m.position
                              = before + field_offset
                                  + IF is_ip_addr(m.field_name) THEN m.offset
                                    ELSE 0
    /\ Ended /\ SomeModifier /\ ~SomeRangeExceeds => profile.status = "built"

(***************************************************************************)
(* Claims about one update_boundaries call (specification SpecB2B)         *)
(***************************************************************************)
\* C29: update_boundaries on a port whose latest statistic is absent or not
\* marked final sets port_should_continue = true and port_test_passed =
\* false and leaves left_bound, right_bound, current, next and last_move
\* unchanged.
C29_NotFinalKeepsBounds ==
    \A e \in DOMAIN b2b :
        b2b_hist[e].last_stat \in {"absent", "not_final"} =>
            /\ b2b[e].port_should_continue
            /\ ~b2b[e].port_test_passed
            /\ b2b[e].left_bound = b2b_hist[e].before.left_bound
            /\ b2b[e].right_bound = b2b_hist[e].before.right_bound
            /\ b2b[e].current = b2b_hist[e].before.current
            /\ b2b[e].next = b2b_hist[e].before.next
            /\ b2b[e].last_move = b2b_hist[e].before.last_move

\* a controller that had passed in the middle of its interval was called
\* again on a statistic that is not final
C29_Witness ==
    /\ b2b # <<>>
    /\ b2b_hist[1].last_stat = "not_final"
    /\ b2b_hist[1].before.port_test_passed
    /\ b2b[1].left_bound > 0
    /\ b2b[1].last_move = 1

\* the controller of the last call at the point where it calls
\* compare_search_pointer
AtCompare(e) ==
    IF b2b_hist[e].last_stat = "final_lossless"
    THEN update_left_bound(b2b_hist[e].before)
    ELSE update_right_bound(b2b_hist[e].before)

\* C30: when update_boundaries declares convergence
\* (|next - current| <= burst_resolution) with next >= current and
\* right_bound - current <= resolution, current is right_bound once
\* update_boundaries returns; with next < current and
\* current - left_bound <= resolution it is left_bound.
C30_ReportsBoundary ==
    \A e \in DOMAIN b2b :
        LET c == AtCompare(e)
            res == b2b_conf.burst_resolution
        IN  ( /\ b2b_hist[e].last_stat \in {"final_lossless", "final_loss"}
              /\ b2b_hist[e].before.left_bound <= b2b_hist[e].before.right_bound
              /\ Abs(c.next - c.current) <= res ) =>
                /\ (c.next >= c.current /\ c.right_bound - c.current <= res)
                      => b2b[e].current = c.right_bound
                /\ (c.next < c.current /\ c.current - c.left_bound <= res)
                      => b2b[e].current = c.left_bound

\* C32: under any sequence of update_boundaries calls with any loss feedback
\* the controller keeps 0 <= left_bound <= right_bound <= initial right bound
\* and left_bound <= current <= right_bound, the interval
\* [left_bound, right_bound] never grows, port_should_continue and
\* port_test_passed are never both true, and exactly one of them is true
\* after each call.
C32_BoundsInvariant ==
    \A e \in DOMAIN b2b :
        LET c == b2b[e]
            h == b2b_hist[e]
        IN  /\ 0 <= c.left_bound
            /\ c.left_bound <= c.right_bound
            /\ c.right_bound <= initial_bound(b2b_conf.actual_duration,
                                              b2b_conf.rate)
            /\ c.left_bound <= c.current
            /\ c.current <= c.right_bound
            /\ h.before.left_bound <= c.left_bound
            /\ c.right_bound <= h.before.right_bound
            /\ ~(c.port_should_continue /\ c.port_test_passed)
            /\ h.last_stat # "none" =>
                  (c.port_should_continue \/ c.port_test_passed)

\* a controller that has moved both of its bounds, fed feedback that no loss
\* threshold explains, and is still searching
C32_Witness ==
    /\ b2b # <<>>
    /\ ~b2b_hist[1].consistent
    /\ b2b_hist[1].finals >= 3
    /\ b2b[1].left_bound > 0
    /\ b2b[1].right_bound < initial_bound(b2b_conf.actual_duration, b2b_conf.rate)
    /\ b2b[1].left_bound < b2b_hist[1].before.right_bound
    /\ b2b[1].port_should_continue

RECURSIVE Doublings(_, _)
\* how often b is doubled until it reaches a
Doublings(a, b) == IF a <= b THEN 0 ELSE 1 + Doublings(a, 2 * b)

RECURSIVE Halvings(_, _)
\* how often b can be halved and still be at least a
Halvings(a, b) == IF 2 * a <= b THEN 1 + Halvings(2 * a, b) ELSE 0

\* ceil(log2(initial right bound / burst_resolution))
CeilLog2Ratio ==
    LET bound == initial_bound(b2b_conf.actual_duration, b2b_conf.rate)
        res == b2b_conf.burst_resolution
    IN  IF bound > res THEN Doublings(bound, res) ELSE -Halvings(bound, res)

\* C33 as stated: for every loss feedback sequence a controller with
\* burst_resolution > 0 sets port_test_passed within
\* ceil(log2(initial right bound / burst_resolution)) + 1 update_boundaries
\* calls that see a final statistic.
C33_PassesWithinLog ==
    \A e \in DOMAIN b2b :
        b2b_hist[e].finals >= CeilLog2Ratio + 1 =>
            /\ b2b_hist[e].passed_at >= 1
            /\ b2b_hist[e].passed_at <= CeilLog2Ratio + 1

\* C33 amended: the controller sets port_test_passed within
\* max(1, ceil(log2(initial right bound / burst_resolution)) + 1) calls that
\* see a final statistic.
C33_PassesWithinLogOrFirst ==
    \A e \in DOMAIN b2b :
        b2b_hist[e].finals >= Max(1, CeilLog2Ratio + 1) =>
            /\ b2b_hist[e].passed_at >= 1
            /\ b2b_hist[e].passed_at <= Max(1, CeilLog2Ratio + 1)

\* a search over an interval of more than eight resolutions has just passed
\* on the call that halves the step to the resolution
C33_Witness ==
    /\ b2b # <<>>
    /\ CeilLog2Ratio >= 4
    /\ b2b_hist[1].finals = CeilLog2Ratio
    /\ b2b_hist[1].passed_at = CeilLog2Ratio
    /\ b2b[1].port_test_passed

(***************************************************************************)
(* Further claims about the address refresh handler (SpecRefresh)          *)
(***************************************************************************)
\* C34: for every refresh_period >= 0 and every N > 0 active tokens
\* set_current_state completes without error and leaves
\* refresh_burst_size >= 1 and interval >= MIN_REFRESH_TIMER_INTERNAL, also
\* when floor(refresh_period / N) = 0; for N = 0 it completes without error.
C34_SetStateCompletes ==
    arh.configured =>
        /\ arh.error = "none"
        /\ Len(arh.tokens) > 0 =>
              /\ arh.refresh_burst_size >= 1
              /\ arh.interval >= MIN_REFRESH_TIMER_INTERNAL

\* the position in the active list the last get_batch call started from
BatchStart == IF ar_hist.from >= Len(arh.tokens) THEN 0 ELSE ar_hist.from

\* C35: after any sequence of set_current_state and get_batch calls, with
\* N > 0 active tokens and burst size b, every active token is returned
\* within the next ceil(N / b) + 1 get_batch calls, each call returns
\* consecutive tokens of the list from where the last one stopped (from the
\* head once the end is reached), and no token is returned a second time
\* before every other active token has been returned - also with an index
\* carried over from the state before.
C35_FairCover ==
    (ar_hist.called /\ Len(arh.tokens) > 0) =>
        LET bound == CeilDiv(Len(arh.tokens), arh.refresh_burst_size) + 1
        IN  /\ ar_hist.calls <= bound
            /\ ar_hist.calls = bound => ar_hist.seen = Range(arh.tokens)
            /\ \A j \in DOMAIN ar_batch :
                  ar_batch[j] = arh.tokens[BatchStart + j]
            /\ arh.index = BatchStart + Len(ar_batch)
            /\ ar_batch # <<>>
            /\ ~ar_hist.early_repeat

\* after a switch from L3_LEARNING to RUNNING_TEST that carried the index
\* over into the middle of a list of three tokens, two calls have returned
\* every token: the tail of the list and then its head
C35_Witness ==
    /\ arh.state = "RUNNING_TEST"
    /\ Len(arh.tokens) = 3
    /\ Len(arh.address_refresh_tokens) > 3
    /\ arh.refresh_burst_size = 2
    /\ ar_hist.calls = 2
    /\ ar_hist.seen = Range(arh.tokens)
    /\ ar_batch = <<arh.tokens[1], arh.tokens[2]>>
    /\ ar_hist.from = 3

(***************************************************************************)
(* Claims about stream configuration (specification SpecConfigure)         *)
(***************************************************************************)
\* C31: when a profile segment has type TCP and the tx port declares
\* can_tcp_checksum, the type sent to the device for that segment by stream
\* configuration is TCPCHECK; without the capability it stays TCP.
C31_TcpChecksumSegment ==
    hdr.pc = "done" =>
        \A k \in DOMAIN hdr.segment_types :
            hdr.segment_types[k] = "TCP" =>
                hdr.protocol[k]
                    = to_xmp(IF hdr.can_tcp_checksum THEN "TCPCHECK" ELSE "TCP")
====
